---- MODULE Spec2Model ----
\* A model of myrient-cli's download manager (internal/downloader/downloader.go)
\* together with the parts of the HTTP client and of the file system that its
\* transfer tasks act on.
EXTENDS Integers, Sequences, FiniteSets, TLC

\* ---------------------------------------------------------------- bounds
\* Length of every remote file, in chunks of the copy loop's buffer.
FileSize == 2
\* Largest number of Resume/Retry calls that are between their lookup of the
\* item (under m.mu) and their update of it (under the item's lock).
MaxCalls == 1

\* Spec: one download, with transfers that run in parallel.
\* Largest item ID handed out (m.nextID is unbounded in the program).
MaxItems == 1
\* Largest number of processItem goroutines alive at the same time.
MaxTasks == 2
\* The slot pool's size, NewManager's maxParallel argument.
Parallel == 2

\* SpecQueue: downloads that share URLs and destinations and wait for one slot.
QueueItems == 2
QueueTasks == 2
QueueParallel == 1
QueueFileSize == 1

\* ---------------------------------------------------------------- inputs
\* Paths are sequences of segments; Enqueue's name and subdir are relative paths.
downloadDir == <<"d">>

\* Enqueue's arguments <<name, fileURL, subdir>> in Spec: one file, named in two ways.
Inputs == {<< <<"f">>, "u1", <<"s">> >>, << <<"s", "f">>, "u1", << >> >>}

\* Enqueue's arguments in SpecQueue: one URL for two destinations, two URLs for
\* one destination, and one destination named in two ways.
QueueInputs ==
    {<< <<"f">>, "u1", << >> >>, << <<"f">>, "u2", << >> >>,
     << <<"f">>, "u1", <<"s">> >>, << <<"s", "f">>, "u1", << >> >>}

\* filepath.Join on cleaned relative paths: the segments of a followed by b's.
Join(a, b) == a \o b

\* Enqueue's destination path (downloader.go 143-147).
DestPathOf(name, subdir) ==
    LET destDir == IF subdir # << >> THEN Join(downloadDir, subdir) ELSE downloadDir
    IN  Join(destDir, name)

\* partPath := item.DestPath + ".part": the sibling file of a destination.
PartPath(p) == Append(p, ".part")

\* The world a run's transfers meet: the length of the remote files (size),
\* whether the disk may fail an operation (storage), whether a request or a read
\* of the body may fail (network), and whether the server may leave out the
\* Content-Length header (nolength).
World == [size |-> FileSize, storage |-> TRUE, network |-> TRUE, nolength |-> TRUE]

\* SpecQueue's world: short files with a stated length on a disk that works.
QueueWorld == [size |-> QueueFileSize, storage |-> FALSE, network |-> TRUE, nolength |-> FALSE]

\* ---------------------------------------------------------------- values
StatusQueued == "Queued"
StatusActive == "Active"
StatusPaused == "Paused"
StatusCompleted == "Completed"
StatusFailed == "Failed"
Statuses == {StatusQueued, StatusActive, StatusPaused, StatusCompleted, StatusFailed}

\* Values of Item.Error and of downloadFile's result.
NoError == "nil"
errCancelled == "cancelled"
ctxCanceled == "context.Canceled"
ErrNetwork == "network"
ErrStorage == "storage"

\* Values of Item.cancel: nil, the CancelFunc of live task t's context, or the
\* CancelFunc of the context of a task that has returned (calling it does nothing).
NilCancel == << >>
DeadCancel == <<"returned">>
CancelOf(t) == <<"task", t>>

\* time.Time values: the zero time, or a time set by time.Now().
ZeroTime == "zero"
SomeTime == "set"

Min(S) == CHOOSE x \in S : \A y \in S : x <= y
Max2(a, b) == IF a >= b THEN a ELSE b

\* ---------------------------------------------------------------- state
VARIABLES
    items,    \* m.items: the tracked items, as a sequence of their IDs
    item,     \* the Item objects ever created, by ID (tasks keep pointers to them)
    nextID,   \* m.nextID
    sem,      \* number of tokens in m.sem
    tasks,    \* the processItem goroutines
    calls,    \* Resume/Retry calls that hold their target and wait for its lock
    fs,       \* the files on disk: path -> length in chunks
    maxParallel  \* m.maxParallel, the capacity of m.sem

vars == <<items, item, nextID, sem, tasks, calls, fs, maxParallel>>

VARIABLES
    now,         \* time.Now(), in ticks
    lastNotify,  \* m.lastNotify, in ticks
    onChange,    \* whether m.onChange is a callback (TRUE) or nil (FALSE)
    fired        \* whether the step called m.onChange

notifyVars == <<now, lastNotify, onChange, fired>>

VARIABLES
    db,        \* the tables of the index database
    conns,     \* the pool's connections: last_insert_rowid of each
    crawler,   \* the Crawler: force, its counters and the stored progress
    ctxDone,   \* whether the context of the crawl is cancelled
    threads,   \* the goroutines of a crawl: the caller (0) and CrawlAll's workers
    crawl,     \* the call of CrawlAll or CrawlCollection and what it returned
    history    \* what the crawlDir calls did, for the properties

index == <<db, conns, crawler, ctxDone, threads, crawl, history>>

VARIABLES
    limiter,   \* the tokens in the bucket of the client's limiter
    callers    \* the goroutines that call the client's methods

client == <<limiter, callers>>

VARIABLE
    pure       \* the call of a function that is checked by itself, and its result

VARIABLES
    locks,       \* the holders of Manager.mu and Item.Mu, and the slots taken
    goroutines   \* what each goroutine of the lock model still has to execute

sync == <<locks, goroutines>>

\* The state outside the download manager, which no step of the manager changes.
outside == <<index, client, pure, sync>>

\* The download manager, which no step of a crawl or of the client changes.
manager == <<vars, now, lastNotify, onChange, fired>>

\* The freshness window of the index, cfg.IndexStaleDays, in ticks of a day.
staleDays == 1

allvars == <<vars, notifyVars, outside>>

\* Ticks of the clock in notify's minimum interval of 100 ms (a tick is 50 ms).
MinInterval == 2
\* The clock stops at this tick.
MaxTime == 3

\* The notifications of a new manager, with the callback registered by
\* SetOnChange (downloader.go 114-118) or not: lastNotify is the zero time,
\* longer ago than any interval.
NotifyInit(fn) ==
    /\ now = 0
    /\ lastNotify = 0 - MinInterval
    /\ onChange = fn
    /\ fired = FALSE

\* A notify that drops forced notifications as it drops the others.
NotifyThrottled(force) ==
    /\ IF now - lastNotify < MinInterval
       THEN lastNotify' = lastNotify /\ fired' = FALSE
       ELSE lastNotify' = now /\ fired' = onChange
    /\ UNCHANGED <<now, onChange>>

\* m.notify(force) (downloader.go 120-137): a notification that is not forced is
\* dropped when the last one is less than the minimum interval ago; otherwise
\* lastNotify is set and the callback, if there is one, is called.
Notify(force) ==
    /\ IF ~force /\ now - lastNotify < MinInterval
       THEN lastNotify' = lastNotify /\ fired' = FALSE
       ELSE lastNotify' = now /\ fired' = onChange
    /\ UNCHANGED <<now, onChange>>

\* A step that does not call notify.
NoNotify ==
    /\ fired' = FALSE
    /\ UNCHANGED <<now, lastNotify, onChange>>

\* A goroutine slot that runs no processItem.
IdleTask ==
    [item |-> 0, pc |-> "idle", ctxDone |-> FALSE, resumeFrom |-> 0,
     resumed |-> FALSE, body |-> 0, fd |-> "none", err |-> NoError]

IdleCall == [op |-> "none", target |-> 0]

\* NewManager(c, downloadDir, n) (downloader.go 104-111) on an empty download
\* directory, in a run of at most nTasks goroutines and nCalls pending calls.
NewManager(n, nTasks, nCalls) ==
    /\ items = << >>
    /\ item = << >>
    /\ nextID = 0
    /\ sem = 0
    /\ maxParallel = n
    /\ tasks = [t \in 1..nTasks |-> IdleTask]
    /\ calls = [c \in 1..nCalls |-> IdleCall]
    /\ fs = << >>

TaskIDs == DOMAIN tasks
CallIDs == DOMAIN calls
\* The IDs a caller may pass: those handed out, and one that never was.
IDs == 1..(nextID + 1)

\* ---------------------------------------------------------------- helpers
Tracked(id) == \E k \in 1..Len(items) : items[k] = id

FreeTasks == {t \in TaskIDs : tasks[t].pc = "idle"}

\* go m.processItem(it): a new goroutine that starts by waiting for a slot.
Spawn(tk, id) ==
    [tk EXCEPT ![Min(FreeTasks)] = [IdleTask EXCEPT !.item = id, !.pc = "acquire"]]

\* Calling the CancelFunc h: the context of the live task it belongs to is done.
\* A task that has left the copy loop looks at its context no more.
CallCancel(tk, h) ==
    IF Len(h) = 2 /\ tk[h[2]].pc \notin {"rename", "finish"}
    THEN [tk EXCEPT ![h[2]].ctxDone = TRUE] ELSE tk

Exists(path) == path \in DOMAIN fs

\* The file system with the file at path created or set to length n.
WriteLen(f, path, n) == [q \in (DOMAIN f) \cup {path} |-> IF q = path THEN n ELSE f[q]]

\* The file system without the file at path.
Remove(f, path) == [q \in (DOMAIN f) \ {path} |-> f[q]]

\* ---------------------------------------------------------------- Enqueue
\* A scan that compares the URLs alone.
FirstDuplicateByURL(fileURL, destPath) ==
    LET dups == {k \in 1..Len(items) :
                    /\ item[items[k]].URL = fileURL
                    /\ item[items[k]].Status # StatusFailed}
    IN  IF dups = {} THEN 0 ELSE items[Min(dups)]

\* The item Enqueue's scan returns (downloader.go 149-157): the first tracked
\* item with the same URL or destination that is not Failed, 0 when there is none.
FirstDuplicate(fileURL, destPath) ==
    LET dups == {k \in 1..Len(items) :
                    /\ (item[items[k]].URL = fileURL \/ item[items[k]].DestPath = destPath)
                    /\ item[items[k]].Status # StatusFailed}
    IN  IF dups = {} THEN 0 ELSE items[Min(dups)]

NewItem(id, fileURL, destPath) ==
    [ID |-> id, URL |-> fileURL, DestPath |-> destPath, TotalBytes |-> 0,
     DoneBytes |-> 0, Status |-> StatusQueued, Error |-> NoError,
     StartedAt |-> ZeroTime, CompletedAt |-> ZeroTime, cancel |-> NilCancel]

\* What Enqueue returns (downloader.go 155, 177): the item and whether it is new.
EnqueueResult(name, fileURL, subdir) ==
    LET dup == FirstDuplicate(fileURL, DestPathOf(name, subdir))
    IN  IF dup # 0 THEN [item |-> dup, created |-> FALSE]
        ELSE [item |-> nextID + 1, created |-> TRUE]

\* Manager.Enqueue (downloader.go 141-178). m.mu is held from the scan to the
\* append, so both are one step; the goroutine it starts has done nothing until
\* it takes a slot.
Enqueue(name, fileURL, subdir) ==
    LET r == EnqueueResult(name, fileURL, subdir)
    IN  IF ~r.created
        THEN UNCHANGED <<vars, outside>> /\ NoNotify
        ELSE /\ FreeTasks # {}
             /\ nextID' = r.item
             /\ item' = [i \in 1..r.item |->
                           IF i = r.item
                           THEN NewItem(r.item, fileURL, DestPathOf(name, subdir))
                           ELSE item[i]]
             /\ items' = Append(items, r.item)
             /\ tasks' = Spawn(tasks, r.item)
             /\ UNCHANGED <<sem, calls, fs, maxParallel, outside>>
             /\ Notify(TRUE)

\* ---------------------------------------------------------------- CancelAll, ClearFinished, Cancel, Pause
Cancellable(st) == st \in {StatusQueued, StatusActive, StatusPaused}

\* The contexts CancelAll cancels: the cancel handles of the tracked items it fails.
RECURSIVE CancelEach(_, _)
CancelEach(tk, k) ==
    IF k > Len(items) THEN tk
    ELSE LET it == item[items[k]]
         IN  CancelEach(IF Cancellable(it.Status) THEN CallCancel(tk, it.cancel) ELSE tk, k + 1)

\* Manager.CancelAll (downloader.go 196-212).
CancelAll ==
    /\ item' = [i \in DOMAIN item |->
                  IF Tracked(i) /\ Cancellable(item[i].Status)
                  THEN [item[i] EXCEPT !.Status = StatusFailed, !.Error = errCancelled]
                  ELSE item[i]]
    /\ tasks' = CancelEach(tasks, 1)
    /\ UNCHANGED <<items, nextID, sem, calls, fs, maxParallel, outside>>
    /\ Notify(TRUE)

\* A ClearFinished that takes paused downloads for finished ones.
FinishedOrPaused(st) == st \in {StatusCompleted, StatusFailed, StatusPaused}

Finished(st) == st \in {StatusCompleted, StatusFailed}

\* The list ClearFinished keeps (downloader.go 226-238).
Kept == SelectSeq(items, LAMBDA id : ~Finished(item[id].Status))

\* What ClearFinished returns: the number of items it removed.
ClearFinishedResult == Len(items) - Len(Kept)

\* Manager.ClearFinished (downloader.go 224-244).
ClearFinished ==
    /\ items' = Kept
    /\ UNCHANGED <<item, nextID, sem, tasks, calls, fs, maxParallel, outside>>
    /\ IF ClearFinishedResult > 0 THEN Notify(TRUE) ELSE NoNotify

\* Manager.Cancel (downloader.go 262-280).
Cancel(id) ==
    /\ IF Tracked(id)
       THEN /\ item' = [item EXCEPT ![id] =
                          IF Cancellable(@.Status)
                          THEN [@ EXCEPT !.Status = StatusFailed, !.Error = errCancelled]
                          ELSE @]
            /\ tasks' = CallCancel(tasks, item[id].cancel)
       ELSE UNCHANGED <<item, tasks>>
    /\ UNCHANGED <<items, nextID, sem, calls, fs, maxParallel, outside>>
    /\ Notify(TRUE)

\* A Pause that looks at no status.
PauseResultAny(id) == Tracked(id)

\* What Pause returns (downloader.go 286-304).
PauseResult(id) == Tracked(id) /\ item[id].Status \in {StatusActive, StatusQueued}

\* Manager.Pause (downloader.go 283-305).
Pause(id) ==
    IF PauseResult(id)
    THEN /\ item' = [item EXCEPT ![id].Status = StatusPaused, ![id].Error = NoError]
         /\ tasks' = CallCancel(tasks, item[id].cancel)
         /\ UNCHANGED <<items, nextID, sem, calls, fs, maxParallel, outside>>
         /\ Notify(TRUE)
    ELSE UNCHANGED <<vars, outside>> /\ NoNotify

\* ---------------------------------------------------------------- Resume, Retry
\* The first half of Resume and of Retry (downloader.go 309-320, 339-351): the
\* lookup of the target under m.mu. An unknown id returns false at once.
Lookup(c, op, id) ==
    /\ calls[c].op = "none"
    /\ IF Tracked(id)
       THEN calls' = [calls EXCEPT ![c] = [op |-> op, target |-> id]]
       ELSE UNCHANGED calls
    /\ UNCHANGED <<items, item, nextID, sem, tasks, fs, maxParallel, outside>>
    /\ NoNotify

ResumeLookup(c, id) == Lookup(c, "Resume", id)

RetryLookup(c, id) == Lookup(c, "Retry", id)

\* The item Resume leaves behind (downloader.go 327-329).
Resumed(it) ==
    [it EXCEPT !.Status = StatusQueued, !.Error = NoError, !.cancel = NilCancel]

\* What Resume returns once it has its target (downloader.go 323-334).
ResumeResult(c) == item[calls[c].target].Status = StatusPaused

\* The second half of Manager.Resume (downloader.go 322-334), under target.Mu.
Resume(c) ==
    LET id == calls[c].target
    IN  /\ calls[c].op = "Resume"
        /\ calls' = [calls EXCEPT ![c] = IdleCall]
        /\ IF ~ResumeResult(c)
           THEN UNCHANGED <<item, tasks>>
           ELSE /\ FreeTasks # {}
                /\ item' = [item EXCEPT ![id] = Resumed(@)]
                /\ tasks' = Spawn(tasks, id)
        /\ UNCHANGED <<items, nextID, sem, fs, maxParallel, outside>>
        /\ IF ResumeResult(c) THEN Notify(TRUE) ELSE NoNotify

\* A Retry that also forgets the progress made.
RetriedFromZero(it) ==
    [it EXCEPT !.Status = StatusQueued, !.Error = NoError, !.StartedAt = ZeroTime,
               !.CompletedAt = ZeroTime, !.cancel = NilCancel, !.DoneBytes = 0]

\* A Retry that keeps the times of the failed attempt.
RetriedKeepsTimes(it) ==
    [it EXCEPT !.Status = StatusQueued, !.Error = NoError, !.cancel = NilCancel]

\* The item Retry leaves behind (downloader.go 358-362).
Retried(it) ==
    [it EXCEPT !.Status = StatusQueued, !.Error = NoError, !.StartedAt = ZeroTime,
               !.CompletedAt = ZeroTime, !.cancel = NilCancel]

\* What Retry returns once it has its target (downloader.go 354-367).
RetryResult(c) == item[calls[c].target].Status = StatusFailed

\* The second half of Manager.Retry (downloader.go 353-367), under target.Mu.
Retry(c) ==
    LET id == calls[c].target
    IN  /\ calls[c].op = "Retry"
        /\ calls' = [calls EXCEPT ![c] = IdleCall]
        /\ IF ~RetryResult(c)
           THEN UNCHANGED <<item, tasks>>
           ELSE /\ FreeTasks # {}
                /\ item' = [item EXCEPT ![id] = Retried(@)]
                /\ tasks' = Spawn(tasks, id)
        /\ UNCHANGED <<items, nextID, sem, fs, maxParallel, outside>>
        /\ IF RetryResult(c) THEN Notify(TRUE) ELSE NoNotify

\* ---------------------------------------------------------------- processItem
\* A send to m.sem that never blocks.
AcquireUnbounded(t) ==
    /\ tasks[t].pc = "acquire"
    /\ sem' = sem + 1
    /\ tasks' = [tasks EXCEPT ![t].pc = "begin"]
    /\ UNCHANGED <<items, item, nextID, calls, fs, maxParallel, outside>>
    /\ NoNotify

\* m.sem <- struct{}{} (downloader.go 372): blocks while the pool is full.
Acquire(t) ==
    /\ tasks[t].pc = "acquire"
    /\ sem < maxParallel
    /\ sem' = sem + 1
    /\ tasks' = [tasks EXCEPT ![t].pc = "begin"]
    /\ UNCHANGED <<items, item, nextID, calls, fs, maxParallel, outside>>
    /\ NoNotify

\* Whether processItem returns without starting a transfer (downloader.go 377, 382).
SkipsTransfer(it) ==
    \/ it.Status = StatusFailed /\ it.Error = errCancelled
    \/ it.Status = StatusPaused

\* The item as processItem marks it when the transfer starts (downloader.go 387-390).
Started(it, t) ==
    [it EXCEPT !.cancel = CancelOf(t), !.Status = StatusActive, !.StartedAt = SomeTime,
               !.Error = NoError]

\* processItem's first critical section (downloader.go 375-392); when it returns
\* early the deferred release of the slot runs.
Begin(t) ==
    LET id == tasks[t].item
    IN  /\ tasks[t].pc = "begin"
        /\ IF SkipsTransfer(item[id])
           THEN /\ tasks' = [tasks EXCEPT ![t] = IdleTask]
                /\ sem' = sem - 1
                /\ UNCHANGED item
           ELSE /\ item' = [item EXCEPT ![id] = Started(@, t)]
                /\ tasks' = [tasks EXCEPT ![t].pc = "stat"]
                /\ UNCHANGED sem
        /\ UNCHANGED <<items, nextID, calls, fs, maxParallel, outside>>
        /\ IF SkipsTransfer(item[id]) THEN NoNotify ELSE Notify(TRUE)

\* downloadFile returns err: its deferred Close calls run, then processItem's
\* second critical section follows.
Return(tk, t, err) ==
    [tk EXCEPT ![t].pc = "finish", ![t].err = err, ![t].fd = "none", ![t].body = 0,
               ![t].resumeFrom = 0, ![t].resumed = FALSE, ![t].ctxDone = FALSE]

\* downloadFile's start (downloader.go 418-430): MkdirAll, which may fail, and the
\* Stat of the .part file, whose length becomes the resume offset and DoneBytes.
Stat(t, W) ==
    LET id == tasks[t].item
        partPath == PartPath(item[id].DestPath)
    IN  /\ tasks[t].pc = "stat"
        /\ \/ /\ W.storage
              /\ tasks' = Return(tasks, t, ErrStorage)
              /\ UNCHANGED item
           \/ /\ Exists(partPath)
              /\ item' = [item EXCEPT ![id].DoneBytes = fs[partPath]]
              /\ tasks' = [tasks EXCEPT ![t].pc = "request", ![t].resumeFrom = fs[partPath]]
           \/ /\ ~Exists(partPath)
              /\ tasks' = [tasks EXCEPT ![t].pc = "request"]
              /\ UNCHANGED item
        /\ UNCHANGED <<items, nextID, sem, calls, fs, maxParallel, outside>>
        /\ NoNotify

\* The Range header of the download request (part_002 947-949): << >> when
\* there is none, <<n>> for "bytes=n-".
RangeHeader(resumeFrom) == IF resumeFrom > 0 THEN <<resumeFrom>> ELSE << >>

\* What Client.DownloadFile can return to a request with this Range header
\* (part_002 942-972): a failure (transport error, a status other than 200 and
\* 206, an HTML page), 200 with the whole file, or - only to a Range request that
\* the file can satisfy - 206 with the rest of the file. The content length is
\* the length of the body, or -1 when the server sends none.
Responses(range, W) ==
    LET lengths(n) == {n} \cup IF W.nolength THEN {0 - 1} ELSE {}
    IN  (IF W.network
         THEN {[err |-> ErrNetwork, resumed |-> FALSE, body |-> 0, contentLength |-> 0]}
         ELSE {})
        \cup {[err |-> NoError, resumed |-> FALSE, body |-> W.size, contentLength |-> cl] :
                cl \in lengths(W.size)}
        \cup IF range # << >> /\ range[1] < W.size
             THEN {[err |-> NoError, resumed |-> TRUE, body |-> W.size - range[1],
                    contentLength |-> cl] : cl \in lengths(W.size - range[1])}
             ELSE {}

\* item.TotalBytes after the response (downloader.go 439-445).
TotalAfter(total, r, resumeFrom) ==
    IF r.contentLength > 0
    THEN IF r.resumed THEN resumeFrom + r.contentLength ELSE r.contentLength
    ELSE total

\* m.client.DownloadFile and the total size (downloader.go 432-445). A request
\* whose context is done fails with context.Canceled (limiter.Wait, dlHTTP.Do).
Request(t, W) ==
    LET id == tasks[t].item
    IN  /\ tasks[t].pc = "request"
        /\ IF tasks[t].ctxDone
           THEN /\ tasks' = Return(tasks, t, ctxCanceled)
                /\ UNCHANGED item
           ELSE \E r \in Responses(RangeHeader(tasks[t].resumeFrom), W) :
                  IF r.err # NoError
                  THEN /\ tasks' = Return(tasks, t, r.err)
                       /\ UNCHANGED item
                  ELSE /\ item' = [item EXCEPT ![id].TotalBytes =
                                      TotalAfter(@, r, tasks[t].resumeFrom)]
                       /\ tasks' = [tasks EXCEPT ![t].pc = "open", ![t].resumed = r.resumed,
                                                 ![t].body = r.body,
                                                 ![t].resumeFrom = IF r.resumed THEN @ ELSE 0]
        /\ UNCHANGED <<items, nextID, sem, calls, fs, maxParallel, outside>>
        /\ NoNotify

\* Opening the .part file (downloader.go 448-460): appending when resumed,
\* truncating (and DoneBytes reset to 0) when not; O_CREATE makes a missing file.
Open(t, W) ==
    LET id == tasks[t].item
        partPath == PartPath(item[id].DestPath)
        resumed == tasks[t].resumed
    IN  /\ tasks[t].pc = "open"
        /\ item' = [item EXCEPT ![id].DoneBytes = IF resumed THEN @ ELSE 0]
        /\ \/ /\ W.storage
              /\ tasks' = Return(tasks, t, ErrStorage)
              /\ UNCHANGED fs
           \/ /\ fs' = IF resumed /\ Exists(partPath) THEN fs ELSE WriteLen(fs, partPath, 0)
              /\ tasks' = [tasks EXCEPT ![t].pc = "copy", ![t].fd = "part"]
        /\ UNCHANGED <<items, nextID, sem, calls, maxParallel, outside>>
        /\ NoNotify

\* The path of the file that task t's descriptor refers to: the .part file it
\* opened, the destination once another task has renamed that file, or no path
\* once the destination was replaced again.
FdPath(t) ==
    LET dp == item[tasks[t].item].DestPath
    IN  IF tasks[t].fd = "part" THEN PartPath(dp) ELSE dp

\* The offset of a descriptor opened without O_APPEND: the chunks of the body
\* (the whole file, as the response was a 200) that the task has written.
Offset(t, W) == W.size - tasks[t].body

\* f.Write of one chunk: at the end of the file with O_APPEND, at the
\* descriptor's own offset without.
WriteChunk(t, W) ==
    IF tasks[t].fd \in {"part", "dest"}
    THEN WriteLen(fs, FdPath(t),
                  IF tasks[t].resumed THEN fs[FdPath(t)] + 1
                  ELSE Max2(fs[FdPath(t)], Offset(t, W) + 1))
    ELSE fs

\* One round of the copy loop (downloader.go 464-485): the cancellation check,
\* then a Read that fails, or returns a chunk (with or without the end of the
\* body, or with a failure), or returns the end of the body alone.
Copy(t, W) ==
    LET id == tasks[t].item
        T == tasks[t]
    IN  /\ T.pc = "copy"
        /\ IF T.ctxDone
           THEN /\ tasks' = Return(tasks, t, ctxCanceled)
                /\ UNCHANGED <<item, fs>>
           ELSE \/ /\ W.network
                   /\ tasks' = Return(tasks, t, ErrNetwork)
                   /\ UNCHANGED <<item, fs>>
                \/ /\ W.storage
                   /\ T.body > 0
                   /\ tasks' = Return(tasks, t, ErrStorage)
                   /\ UNCHANGED <<item, fs>>
                \/ /\ T.body > 0
                   /\ fs' = WriteChunk(t, W)
                   /\ item' = [item EXCEPT ![id].DoneBytes = @ + 1]
                   /\ \/ tasks' = [tasks EXCEPT ![t].body = @ - 1]
                      \/ /\ T.body = 1
                         /\ tasks' = [tasks EXCEPT ![t].body = 0, ![t].pc = "rename",
                                                   ![t].ctxDone = FALSE]
                      \/ /\ W.network
                         /\ tasks' = Return(tasks, t, ErrNetwork)
                \/ /\ T.body = 0
                   /\ tasks' = [tasks EXCEPT ![t].pc = "rename", ![t].ctxDone = FALSE]
                   /\ UNCHANGED <<item, fs>>
        /\ UNCHANGED <<items, nextID, sem, calls, maxParallel, outside>>
        /\ IF item'[id].DoneBytes # item[id].DoneBytes THEN Notify(FALSE) ELSE NoNotify

\* The descriptors of the other tasks after dp's .part file was renamed to dp.
Renamed(tk, t, dp) ==
    [u \in TaskIDs |->
        IF u # t /\ tk[u].item # 0 /\ item[tk[u].item].DestPath = dp
        THEN [tk[u] EXCEPT !.fd = IF @ = "part" THEN "dest"
                                  ELSE IF @ = "dest" THEN "orphan" ELSE @]
        ELSE tk[u]]

\* f.Close and os.Rename of the .part file to DestPath (downloader.go 488-493).
Rename(t, W) ==
    LET id == tasks[t].item
        dp == item[id].DestPath
    IN  /\ tasks[t].pc = "rename"
        /\ \/ /\ W.storage \/ ~Exists(PartPath(dp))
              /\ tasks' = Return(tasks, t, ErrStorage)
              /\ UNCHANGED fs
           \/ /\ Exists(PartPath(dp))
              /\ fs' = Remove(WriteLen(fs, dp, fs[PartPath(dp)]), PartPath(dp))
              /\ tasks' = Return(Renamed(tasks, t, dp), t, NoError)
        /\ UNCHANGED <<items, item, nextID, sem, calls, maxParallel, outside>>
        /\ NoNotify

\* The item as processItem leaves it when downloadFile returned err
\* (downloader.go 396-411).
Ended(it, err) ==
    IF err # NoError
    THEN IF err = ctxCanceled
         THEN IF it.Status # StatusPaused
              THEN [it EXCEPT !.Status = StatusFailed, !.Error = errCancelled]
              ELSE it
         ELSE [it EXCEPT !.Status = StatusFailed, !.Error = err]
    ELSE [it EXCEPT !.Status = StatusCompleted, !.CompletedAt = SomeTime]

\* processItem's second critical section, its own cancel() and the release of
\* the slot (downloader.go 396-414, 373). The handle the item may still hold
\* now belongs to a returned task.
Finish(t) ==
    LET id == tasks[t].item
        done == Ended(item[id], tasks[t].err)
    IN  /\ tasks[t].pc = "finish"
        /\ item' = [item EXCEPT ![id] =
                      [done EXCEPT !.cancel = IF @ = CancelOf(t) THEN DeadCancel ELSE @]]
        /\ tasks' = [tasks EXCEPT ![t] = IdleTask]
        /\ sem' = sem - 1
        /\ UNCHANGED <<items, nextID, calls, fs, maxParallel, outside>>
        /\ Notify(TRUE)

\* ---------------------------------------------------------------- functions checked by themselves
\* No function is called by itself.
NoPure == pure = [fn |-> "none"]

\* ---------------------------------------------------------------- strings
\* A string is the sequence of its characters.
UpperLetters ==
    <<"A", "B", "C", "D", "E", "F", "G", "H", "I", "J", "K", "L", "M",
      "N", "O", "P", "Q", "R", "S", "T", "U", "V", "W", "X", "Y", "Z">>

LowerLetters ==
    <<"a", "b", "c", "d", "e", "f", "g", "h", "i", "j", "k", "l", "m",
      "n", "o", "p", "q", "r", "s", "t", "u", "v", "w", "x", "y", "z">>

\* strings.ToLower.
ToLowerChar(c) ==
    IF \E i \in DOMAIN UpperLetters : UpperLetters[i] = c
    THEN LowerLetters[CHOOSE i \in DOMAIN UpperLetters : UpperLetters[i] = c]
    ELSE c

ToLower(s) == [i \in DOMAIN s |-> ToLowerChar(s[i])]

\* strings.HasPrefix, strings.HasSuffix, strings.Contains.
HasPrefix(s, prefix) ==
    Len(prefix) <= Len(s) /\ SubSeq(s, 1, Len(prefix)) = prefix

HasSuffix(s, suffix) ==
    Len(suffix) <= Len(s) /\ SubSeq(s, Len(s) - Len(suffix) + 1, Len(s)) = suffix

Contains(s, sub) ==
    \E i \in 1..(Len(s) - Len(sub) + 1) : SubSeq(s, i, i + Len(sub) - 1) = sub

\* ---------------------------------------------------------------- the locks of the download manager
\* What the goroutines of the program do to one item of the manager, as far as
\* its locks and its shared fields go: each function is the sequences of lock
\* operations, field accesses, callback calls and go statements it executes.

\* Manager.mu, Item.Mu and the slots of Manager.sem that are taken.
FreeLocks == [mu |-> 0, Mu |-> 0, sem |-> 0]

Locks(x) == [k |-> "lock", x |-> x]
Unlocks(x) == [k |-> "unlock", x |-> x]
Rd(fields) == [k |-> "read", x |-> fields]
Wr(fields) == [k |-> "write", x |-> fields]
Atomic(fields) == [k |-> "atomic", x |-> fields]
Fn == [k |-> "callback", x |-> "onChange"]
FnEnd == [k |-> "return", x |-> "onChange"]
Go(f) == [k |-> "go", x |-> f]
AcquireSlot == [k |-> "acquire", x |-> "sem"]
ReleaseSlot == [k |-> "release", x |-> "sem"]

\* All sequences a \o b with a in A and b in B.
Then(A, B) == {a \o b : a \in A, b \in B}

\* Manager.notify (downloader.go 120-137): fn is read under the lock and
\* called after the unlock; a call without force can be throttled.
notify(force) ==
    {<<Locks("mu"), Unlocks("mu"), Fn>>} \cup (IF force THEN {} ELSE {<<Locks("mu"), Unlocks("mu")>>})

\* The loop body of HasActive, ActiveCount and ClearFinished (downloader.go
\* 183-185, 228-230, 247-251), and of Enqueue's search for a duplicate (150-152).
ReadStatus == <<Locks("Mu"), Rd({"Status"}), Unlocks("Mu")>>

\* Manager.Items (downloader.go 214-221).
ItemsCode == {<<Locks("mu"), Unlocks("mu")>>}

\* Manager.HasActive (180-193) and Manager.ActiveCount (243-256).
HasActiveCode == {<<Locks("mu")>> \o ReadStatus \o <<Unlocks("mu")>>}

\* The callback of the program: it calls back into the manager.
CallbackCode == ItemsCode \cup HasActiveCode

\* Manager.Enqueue (141-178): a duplicate is found, or the item is new.
EnqueueCode ==
    {<<Locks("mu")>> \o ReadStatus \o <<Unlocks("mu")>>}
        \cup Then(Then({<<Locks("mu"), Unlocks("mu")>>}, notify(TRUE)), {<<Go("processItem")>>})

\* Manager.CancelAll (196-212) and Manager.Cancel (262-280).
CancelCode ==
    Then({<<Locks("mu"), Locks("Mu"), Wr({"Status", "Error", "cancel"}), Unlocks("Mu"), Unlocks("mu")>>,
          <<Locks("mu"), Locks("Mu"), Rd({"Status", "cancel"}), Unlocks("Mu"), Unlocks("mu")>>},
         notify(TRUE))

\* A Pause that calls notify itself, under the deferred unlock.
PauseInline ==
    Then(Then({<<Locks("mu"), Locks("Mu"), Wr({"Status", "Error", "cancel"}), Unlocks("Mu")>>},
              notify(TRUE)),
         {<<Unlocks("mu")>>})
        \cup {<<Locks("mu"), Locks("Mu"), Rd({"Status"}), Unlocks("Mu"), Unlocks("mu")>>, <<Locks("mu"), Unlocks("mu")>>}

\* Manager.Pause (283-305): the unlock of the manager is deferred, and notify
\* runs in a goroutine of its own.
PauseCode ==
    {<<Locks("mu"), Locks("Mu"), Wr({"Status", "Error", "cancel"}), Unlocks("Mu"), Go("notify"), Unlocks("mu")>>,
     <<Locks("mu"), Locks("Mu"), Rd({"Status"}), Unlocks("Mu"), Unlocks("mu")>>,
     <<Locks("mu"), Unlocks("mu")>>}

\* Manager.Resume (308-335) and Manager.Retry (338-368).
ResumeCode ==
    {<<Locks("mu"), Unlocks("mu")>>, <<Locks("mu"), Unlocks("mu"), Locks("Mu"), Rd({"Status"}), Unlocks("Mu")>>}
        \cup Then(Then({<<Locks("mu"), Unlocks("mu"), Locks("Mu"),
                          Wr({"Status", "Error", "StartedAt", "CompletedAt", "cancel"}), Unlocks("Mu")>>},
                       notify(TRUE)),
                  {<<Go("processItem")>>})

\* Manager.ClearFinished (223-241).
ClearFinishedCode ==
    {<<Locks("mu")>> \o ReadStatus \o <<Unlocks("mu")>>}
        \cup Then({<<Locks("mu")>> \o ReadStatus \o <<Unlocks("mu")>>}, notify(TRUE))

\* Manager.downloadFile (416-495) with one chunk: the request fails, or the
\* size is written, the chunk is counted and notify is called.
downloadFileCode ==
    {<<Atomic({"DoneBytes"})>>}
        \cup Then({<<Atomic({"DoneBytes"}), Wr({"TotalBytes"}), Atomic({"DoneBytes"}),
                     Atomic({"DoneBytes"})>>},
                  notify(FALSE))

\* Manager.processItem (370-414): it returns at its check, or it runs the
\* transfer between its two sections under the item's lock.
processItemCode ==
    {<<AcquireSlot, Locks("Mu"), Rd({"Status", "Error"}), Unlocks("Mu"), ReleaseSlot>>}
        \cup Then(Then(Then(Then(
                {<<AcquireSlot, Locks("Mu"), Wr({"Status", "Error", "StartedAt", "cancel"}), Unlocks("Mu")>>},
                notify(TRUE)),
                downloadFileCode),
                {<<Locks("Mu"), Wr({"Status", "Error", "CompletedAt"}), Unlocks("Mu")>>}),
                Then(notify(TRUE), {<<ReleaseSlot>>}))

\* Item.Progress (61-69).
ProgressCode == {<<Rd({"TotalBytes"}), Atomic({"DoneBytes"})>>}

\* Item.Speed (72-85).
SpeedCode == {<<Locks("Mu"), Rd({"StartedAt"}), Unlocks("Mu"), Atomic({"DoneBytes"})>>}

\* downloadsModel.view (internal/tui/downloads.go 116-127, 145-158) for one item.
viewCode ==
    Then(Then(Then({ReadStatus}, {<<Locks("Mu"), Rd({"Status", "Error"}), Unlocks("Mu")>>}),
              Then(ProgressCode, SpeedCode)),
         {<<Atomic({"DoneBytes"}), Rd({"TotalBytes"})>>})

\* What the user interface calls.
Operations ==
    ItemsCode \cup HasActiveCode \cup EnqueueCode \cup CancelCode \cup PauseCode
        \cup ResumeCode \cup ClearFinishedCode \cup viewCode

\* What a go statement starts.
StartedBy(f) == IF f = "notify" THEN notify(TRUE) ELSE processItemCode

IdleGoroutine == [todo |-> << >>, inCallback |-> FALSE]

\* The goroutine that go statements of g start.
ChildOf(g, n) == g + n

Busy(g) == goroutines[g].todo # << >>
NextOf(g) == Head(goroutines[g].todo)
Doing(g, kinds) == Busy(g) /\ NextOf(g).k \in kinds
Advance(g) == [goroutines EXCEPT ![g].todo = Tail(@)]

\* A goroutine of the user interface calls an operation of the manager or
\* draws the item; the last goroutine it started is over.
Invoke(g, n) ==
    /\ g \in 1..n
    /\ ~Busy(g)
    /\ ~Busy(ChildOf(g, n))
    /\ \E code \in Operations : goroutines' = [goroutines EXCEPT ![g].todo = code]
    /\ UNCHANGED locks
    /\ UNCHANGED <<manager, index, client, pure>>

\* Lock of a sync.Mutex: it waits while another call holds it - also when the
\* holder is the goroutine itself.
Lock(g) ==
    /\ Doing(g, {"lock"})
    /\ locks[NextOf(g).x] = 0
    /\ locks' = [locks EXCEPT ![NextOf(g).x] = g]
    /\ goroutines' = Advance(g)
    /\ UNCHANGED <<manager, index, client, pure>>

Unlock(g) ==
    /\ Doing(g, {"unlock"})
    /\ locks' = [locks EXCEPT ![NextOf(g).x] = 0]
    /\ goroutines' = Advance(g)
    /\ UNCHANGED <<manager, index, client, pure>>

\* m.sem <- struct{}{} and the deferred <-m.sem (downloader.go 372-373).
Slot(g, parallel) ==
    /\ \/ /\ Doing(g, {"acquire"})
          /\ locks.sem < parallel
          /\ locks' = [locks EXCEPT !.sem = @ + 1]
       \/ /\ Doing(g, {"release"})
          /\ locks' = [locks EXCEPT !.sem = @ - 1]
    /\ goroutines' = Advance(g)
    /\ UNCHANGED <<manager, index, client, pure>>

\* A read or a write of fields of the item.
Access(g) ==
    /\ Doing(g, {"read", "write", "atomic"})
    /\ goroutines' = Advance(g)
    /\ UNCHANGED locks
    /\ UNCHANGED <<manager, index, client, pure>>

\* fn() (downloader.go 134-136): the callback runs in the goroutine of notify.
Callback(g) ==
    /\ Doing(g, {"callback"})
    /\ \E code \in CallbackCode :
         goroutines' = [goroutines EXCEPT ![g].todo = code \o <<FnEnd>> \o Tail(@),
                                          ![g].inCallback = TRUE]
    /\ UNCHANGED locks
    /\ UNCHANGED <<manager, index, client, pure>>

CallbackReturns(g) ==
    /\ Doing(g, {"return"})
    /\ goroutines' = [goroutines EXCEPT ![g].todo = Tail(@), ![g].inCallback = FALSE]
    /\ UNCHANGED locks
    /\ UNCHANGED <<manager, index, client, pure>>

\* go m.processItem(item) (164, 333, 366) and go m.notify(true) (302).
GoStatement(g, n) ==
    /\ Doing(g, {"go"})
    /\ \E code \in StartedBy(NextOf(g).x) :
         goroutines' = [Advance(g) EXCEPT ![ChildOf(g, n)].todo = code]
    /\ UNCHANGED locks
    /\ UNCHANGED <<manager, index, client, pure>>

\* n goroutines of the user interface and the goroutines they start, all idle.
LockInit(n) ==
    /\ locks = FreeLocks
    /\ goroutines = [g \in 1..(2 * n) |-> IdleGoroutine]

\* A program without a download manager.
NoSync == LockInit(0)

\* ---------------------------------------------------------------- the remote tree
\* The site that is crawled: two collections, one of them with two
\* subdirectories, one of these empty.
\* A path is the sequence of its names; the root is << >>.
Root == << >>

DirEntry(name) == [Name |-> name, IsDir |-> TRUE]
FileEntry(name) == [Name |-> name, IsDir |-> FALSE]

\* The entries of the listing of a directory, in the order of the page.
Listing(path) ==
    CASE path = Root -> <<DirEntry("A"), DirEntry("B")>>
      [] path = <<"A">> -> <<FileEntry("a"), DirEntry("x"), DirEntry("y")>>
      [] path = <<"A", "x">> -> <<FileEntry("f"), FileEntry("g")>>
      [] path = <<"A", "y">> -> << >>
      [] path = <<"B">> -> <<FileEntry("b")>>
      [] OTHER -> << >>

Dirs == {<<"A">>, <<"A", "x">>, <<"A", "y">>, <<"B">>}

RECURSIVE SeqToSet(_)
SeqToSet(s) == IF s = << >> THEN {} ELSE {Head(s)} \cup SeqToSet(Tail(s))

\* The names of the subdirectories and of the files of a listing, in its order
\* (CrawlAll 95-100, crawlDir 198-214).
DirNames(entries) ==
    LET ds == SelectSeq(entries, LAMBDA e : e.IsDir)
    IN  [k \in 1..Len(ds) |-> ds[k].Name]

FileNames(entries) ==
    LET es == SelectSeq(entries, LAMBDA e : ~e.IsDir)
    IN  [k \in 1..Len(es) |-> es[k].Name]

\* ---------------------------------------------------------------- the index database
\* last_crawled of a directory that was never marked: NULL.
NullTime == 0 - 1

\* The tables after migrate (part_003 324-371) on a new file: collections by
\* name and directories by path (their UNIQUE keys), the files as a set of rows,
\* and sqlite_sequence, the last AUTOINCREMENT id of each table.
EmptyDB ==
    [collections |-> << >>, directories |-> << >>, files |-> {},
     seq |-> [collections |-> 0, directories |-> 0, files |-> 0]]

\* f with key k set to v.
Put(f, k, v) == [x \in DOMAIN f \cup {k} |-> IF x = k THEN v ELSE f[x]]

\* res.LastInsertId() after an INSERT ... ON CONFLICT DO UPDATE on a connection
\* whose last_insert_rowid was rowid: the id of the inserted row, and, when the
\* row was there and was updated, last_insert_rowid as it stood - the rowid of
\* the connection's last INSERT into any table, 0 if it has made none.
LastInsertId(inserted, id, rowid) == IF inserted THEN id ELSE rowid

\* DB.UpsertCollection (part_003 455-474) on a connection with this
\* last_insert_rowid: the tables, the connection's last_insert_rowid and the id
\* it returns.
UpsertCollection(D, rowid, name) ==
    LET inserted == name \notin DOMAIN D.collections
        new == D.seq.collections + 1
        id == LastInsertId(inserted, new, rowid)
    IN  [db |-> IF inserted
                THEN [D EXCEPT !.collections = Put(@, name, new), !.seq.collections = new]
                ELSE D,
         rowid |-> id,
         id |-> IF id = 0 THEN D.collections[name] ELSE id]

\* DB.UpsertDirectory (part_003 496-513).
UpsertDirectory(D, rowid, path, collectionID) ==
    LET inserted == path \notin DOMAIN D.directories
        new == D.seq.directories + 1
        id == LastInsertId(inserted, new, rowid)
    IN  [db |-> IF inserted
                THEN [D EXCEPT !.directories =
                                  Put(@, path, [id |-> new, collection_id |-> collectionID,
                                                last_crawled |-> NullTime]),
                               !.seq.directories = new]
                ELSE [D EXCEPT !.directories[path].collection_id = collectionID],
         rowid |-> id,
         id |-> IF id = 0 THEN D.directories[path].id ELSE id]

\* DB.MarkDirectoryCrawled (part_003 516-522): the rows with this id, if any.
MarkDirectoryCrawled(D, dirID, t) ==
    [D EXCEPT !.directories =
        [p \in DOMAIN @ |-> IF @[p].id = dirID THEN [@[p] EXCEPT !.last_crawled = t] ELSE @[p]]]

\* DB.IsDirectoryStale (part_003 525-538) at time t.
IsDirectoryStale(D, path, days, t) ==
    \/ path \notin DOMAIN D.directories
    \/ D.directories[path].last_crawled = NullTime
    \/ t - D.directories[path].last_crawled > days

\* DB.ClearDirectoryFiles (part_003 541-544).
ClearDirectoryFiles(D, dirID) ==
    [D EXCEPT !.files = {f \in @ : f.directory_id # dirID}]

\* The rows a committed DB.InsertFileBatch adds (part_003 556-580): one per
\* record, with the next ids of the table.
RECURSIVE InsertFiles(_, _)
InsertFiles(D, files) ==
    IF files = << >> THEN D
    ELSE LET new == D.seq.files + 1
             f == Head(files)
         IN  InsertFiles([D EXCEPT !.files = @ \cup {[id |-> new, path |-> f.Path,
                                                      directory_id |-> f.DirectoryID]},
                                   !.seq.files = new],
                         Tail(files))

\* The FileRecords crawlDir builds from a listing (part_003 198-214).
FileRecords(dirPath, entries, dirID) ==
    LET names == FileNames(entries)
    IN  [k \in 1..Len(names) |-> [Path |-> Append(dirPath, names[k]), DirectoryID |-> dirID]]
\* ---------------------------------------------------------------- Crawler
\* The errors of a crawl.
ErrListing == "listing"
ErrListingRoot == "listing root"
ErrInserting == "inserting files"
Running == "running"

\* CrawlProgress{}: what Progress() returns before any report (part_003 66-72).
ZeroProgress == [CurrentPath |-> Root, DirsProcessed |-> 0, FilesFound |-> 0, Errors |-> 0]

\* NewCrawler's number of workers (part_003 48).
DefaultWorkers == 4

\* NewCrawler (part_003 43-51) and SetForce: the counters at zero, no progress
\* stored.
NewCrawler(force) ==
    [force |-> force, workers |-> DefaultWorkers, dirsProc |-> 0, filesFound |-> 0,
     errCount |-> 0, progress |-> ZeroProgress]

\* SetWorkers (part_003 54-59).
SetWorkers(cr, workers) == [cr EXCEPT !.workers = IF workers < 1 THEN 1 ELSE workers]

\* A goroutine that runs nothing.
IdleThread == [pc |-> "off", collection |-> "", err |-> NoError, stack |-> << >>]

\* No call of CrawlAll or CrawlCollection is in progress.
NoCrawl == [op |-> "none", pc |-> "none", rest |-> << >>, ret |-> NoError, runs |-> 0]

\* A crawlDir call (part_003 158) at its start.
Frame(path, colID) ==
    [path |-> path, colID |-> colID, pc |-> "enter", entries |-> << >>, dirID |-> 0,
     subdirs |-> << >>, got |-> NoError, snap |-> ZeroProgress]

ThreadIDs == DOMAIN threads
Top(w) == threads[w].stack[Len(threads[w].stack)]
InCrawlDir(w) == threads[w].pc = "run" /\ threads[w].stack # << >>
At(w, pc) == InCrawlDir(w) /\ Top(w).pc = pc

\* The top frame of w replaced by f.
SetTop(th, w, f) == [th EXCEPT ![w].stack[Len(th[w].stack)] = f]

\* crawlDir of the top frame of w returns err: to the crawlDir that called it,
\* or, from the first frame, to CrawlCollection's caller.
ReturnDir(th, w, err) ==
    LET n == Len(th[w].stack)
    IN  IF n = 1
        THEN [th EXCEPT ![w].stack = << >>, ![w].pc = "returned", ![w].err = err]
        ELSE [th EXCEPT ![w].stack = [SubSeq(@, 1, n - 1) EXCEPT ![n - 1].got = err]]

\* What the callers see of the crawlDir calls: for each directory the time its
\* crawl last ran to the end of its own listing and store writes, and the
\* directories whose crawlDir was called or failed in this run.
NoHistory == [crawledAt |-> [d \in Dirs |-> NullTime], called |-> {}, failed |-> {}]

\* reportProgress (part_003 74-86).
reportProgress(cr, path) ==
    [cr EXCEPT !.progress = [CurrentPath |-> path, DirsProcessed |-> cr.dirsProc,
                             FilesFound |-> cr.filesFound, Errors |-> cr.errCount]]

\* CrawlCollection's UpsertCollection and its call of crawlDir (part_003 147-155).
CrawlCollection(w) ==
    /\ threads[w].pc = "crawl"
    /\ \E c \in DOMAIN conns :
         LET r == UpsertCollection(db, conns[c], threads[w].collection)
         IN  /\ db' = r.db
             /\ conns' = [conns EXCEPT ![c] = r.rowid]
             /\ threads' = [threads EXCEPT ![w].pc = "run",
                               ![w].stack = <<Frame(<<threads[w].collection>>, r.id)>>]
    /\ UNCHANGED <<crawler, ctxDone, crawl, history>>
    /\ UNCHANGED <<manager, client, pure, sync>>

\* crawlDir's start (part_003 159-177): the cancellation check, the progress
\* report and the staleness check.
Enter(w) ==
    LET f == Top(w)
    IN  /\ At(w, "enter")
        /\ IF ctxDone
           THEN /\ threads' = ReturnDir(threads, w, ctxCanceled)
                /\ UNCHANGED crawler
           ELSE IF ~crawler.force /\ ~IsDirectoryStale(db, f.path, staleDays, now)
           THEN /\ crawler' = [reportProgress(crawler, f.path) EXCEPT !.dirsProc = @ + 1]
                /\ threads' = ReturnDir(threads, w, NoError)
           ELSE /\ crawler' = reportProgress(crawler, f.path)
                /\ threads' = SetTop(threads, w, [f EXCEPT !.pc = "list"])
        /\ history' = [history EXCEPT !.called = @ \cup {f.path}]
        /\ UNCHANGED <<db, conns, ctxDone, crawl>>
        /\ UNCHANGED <<manager, client, pure, sync>>

\* crawlDir's start as the steps of a goroutine that runs next to others: the
\* cancellation check and reportProgress's loads of the counters (part_003
\* 159-165, 75-80) ...
Snapshot(w) ==
    LET f == Top(w)
    IN  /\ At(w, "enter")
        /\ IF ctxDone
           THEN threads' = ReturnDir(threads, w, ctxCanceled)
           ELSE threads' = SetTop(threads, w,
                             [f EXCEPT !.pc = "publish",
                                       !.snap = reportProgress(crawler, f.path).progress])
        /\ history' = [history EXCEPT !.called = @ \cup {f.path}]
        /\ UNCHANGED <<db, conns, crawler, ctxDone, crawl>>
        /\ UNCHANGED <<manager, client, pure, sync>>

\* ... and reportProgress's Store of the snapshot it has built (part_003 81),
\* followed by the staleness check (167-177).
Publish(w) ==
    LET f == Top(w)
        stored == [crawler EXCEPT !.progress = f.snap]
    IN  /\ At(w, "publish")
        /\ IF ~crawler.force /\ ~IsDirectoryStale(db, f.path, staleDays, now)
           THEN /\ crawler' = [stored EXCEPT !.dirsProc = @ + 1]
                /\ threads' = ReturnDir(threads, w, NoError)
           ELSE /\ crawler' = stored
                /\ threads' = SetTop(threads, w, [f EXCEPT !.pc = "list"])
        /\ UNCHANGED <<db, conns, ctxDone, crawl, history>>
        /\ UNCHANGED <<manager, client, pure, sync>>

\* cr.client.ListDirectory (part_003 179-183): the limiter's Wait fails on a
\* cancelled context, the request can fail, or the listing arrives.
List(w, W) ==
    LET f == Top(w)
    IN  /\ At(w, "list")
        /\ \/ /\ ctxDone \/ W.network
              /\ crawler' = [crawler EXCEPT !.errCount = @ + 1]
              /\ threads' = ReturnDir(threads, w, IF ctxDone THEN ctxCanceled ELSE ErrListing)
              /\ history' = [history EXCEPT !.failed = @ \cup {f.path}]
           \/ /\ ~ctxDone
              /\ threads' = SetTop(threads, w, [f EXCEPT !.pc = "upsert",
                                                         !.entries = Listing(f.path)])
              /\ UNCHANGED <<crawler, history>>
        /\ UNCHANGED <<db, conns, ctxDone, crawl>>
        /\ UNCHANGED <<manager, client, pure, sync>>

\* cr.db.UpsertDirectory (part_003 185-188), on one of the pool's connections.
Upsert(w) ==
    LET f == Top(w)
    IN  /\ At(w, "upsert")
        /\ \E c \in DOMAIN conns :
             LET r == UpsertDirectory(db, conns[c], f.path, f.colID)
             IN  /\ db' = r.db
                 /\ conns' = [conns EXCEPT ![c] = r.rowid]
                 /\ threads' = SetTop(threads, w, [f EXCEPT !.pc = "clear", !.dirID = r.id])
        /\ UNCHANGED <<crawler, ctxDone, crawl, history>>
        /\ UNCHANGED <<manager, client, pure, sync>>

\* cr.db.ClearDirectoryFiles (part_003 191-193).
Clear(w) ==
    LET f == Top(w)
    IN  /\ At(w, "clear")
        /\ db' = ClearDirectoryFiles(db, f.dirID)
        /\ threads' = SetTop(threads, w,
                        [f EXCEPT !.pc = IF FileNames(f.entries) # << >> THEN "insert"
                                         ELSE "mark"])
        /\ UNCHANGED <<conns, crawler, ctxDone, crawl, history>>
        /\ UNCHANGED <<manager, client, pure, sync>>

\* cr.db.InsertFileBatch of a listing with files (part_003 217-222): the
\* transaction commits, or it fails and is rolled back.
Insert(w, W) ==
    LET f == Top(w)
        files == FileRecords(f.path, f.entries, f.dirID)
    IN  /\ At(w, "insert")
        /\ \/ /\ W.storage
              /\ threads' = ReturnDir(threads, w, ErrInserting)
              /\ history' = [history EXCEPT !.failed = @ \cup {f.path}]
              /\ UNCHANGED <<db, conns, crawler>>
           \/ /\ \E c \in DOMAIN conns :
                   /\ db' = InsertFiles(db, files)
                   /\ conns' = [conns EXCEPT ![c] = db'.seq.files]
              /\ crawler' = [crawler EXCEPT !.filesFound = @ + Len(files)]
              /\ threads' = SetTop(threads, w, [f EXCEPT !.pc = "mark"])
              /\ UNCHANGED history
        /\ UNCHANGED <<ctxDone, crawl>>
        /\ UNCHANGED <<manager, client, pure, sync>>

\* cr.db.MarkDirectoryCrawled and the count of the directory (part_003 225-228).
Mark(w) ==
    LET f == Top(w)
        names == DirNames(f.entries)
    IN  /\ At(w, "mark")
        /\ db' = MarkDirectoryCrawled(db, f.dirID, now)
        /\ crawler' = [crawler EXCEPT !.dirsProc = @ + 1]
        /\ threads' = SetTop(threads, w,
                        [f EXCEPT !.pc = "recurse",
                                  !.subdirs = [k \in 1..Len(names) |-> Append(f.path, names[k])]])
        /\ history' = [history EXCEPT !.crawledAt[f.path] = now]
        /\ UNCHANGED <<conns, ctxDone, crawl>>
        /\ UNCHANGED <<manager, client, pure, sync>>

\* A loop over the subdirectories that gives up at the first one that fails.
RecurseAborts(w) ==
    LET f == Top(w)
    IN  /\ At(w, "recurse")
        /\ IF f.got # NoError
           THEN threads' = ReturnDir(threads, w, f.got)
           ELSE IF f.subdirs = << >>
                THEN threads' = ReturnDir(threads, w, NoError)
                ELSE threads' =
                       [threads EXCEPT ![w].stack =
                           Append([@ EXCEPT ![Len(@)].subdirs = Tail(f.subdirs)],
                                  Frame(Head(f.subdirs), f.colID))]
        /\ UNCHANGED <<db, conns, crawler, ctxDone, crawl, history>>
        /\ UNCHANGED <<manager, client, pure, sync>>

\* The loop over the subdirectories (part_003 231-241): the error of the
\* subdirectory that has returned is handled, the next one is called, or
\* crawlDir returns nil.
Recurse(w) ==
    LET f == Top(w)
    IN  /\ At(w, "recurse")
        /\ IF f.got # NoError
           THEN IF ctxDone
                THEN /\ threads' = ReturnDir(threads, w, ctxCanceled)
                     /\ UNCHANGED crawler
                ELSE /\ crawler' = [crawler EXCEPT !.errCount = @ + 1]
                     /\ threads' = SetTop(threads, w, [f EXCEPT !.got = NoError])
           ELSE /\ UNCHANGED crawler
                /\ IF f.subdirs = << >>
                   THEN threads' = ReturnDir(threads, w, NoError)
                   ELSE threads' =
                          [threads EXCEPT ![w].stack =
                              Append([@ EXCEPT ![Len(@)].subdirs = Tail(f.subdirs)],
                                     Frame(Head(f.subdirs), f.colID))]
        /\ UNCHANGED <<db, conns, ctxDone, crawl, history>>
        /\ UNCHANGED <<manager, client, pure, sync>>

\* The steps of a crawlDir call.
DirStep(w, W) ==
    \/ Enter(w)
    \/ List(w, W)
    \/ Upsert(w)
    \/ Clear(w)
    \/ Insert(w, W)
    \/ Mark(w)
    \/ Recurse(w)

\* A new process opens the database: its connections have inserted nothing.
Reopened(cn, reopen) == IF reopen THEN [c \in DOMAIN cn |-> 0] ELSE cn

\* The caller makes a crawler and calls CrawlCollection (part_002 262-272), in
\* the process of the last crawl or in a new one.
StartCollection(name, force, reopen, max) ==
    /\ crawl.ret # Running
    /\ crawl.runs < max
    /\ crawler' = NewCrawler(force)
    /\ ctxDone' = FALSE
    /\ conns' = Reopened(conns, reopen)
    /\ threads' = [threads EXCEPT ![0] = [IdleThread EXCEPT !.pc = "crawl", !.collection = name]]
    /\ crawl' = [op |-> "CrawlCollection", pc |-> "none", rest |-> << >>, ret |-> Running,
                 runs |-> crawl.runs + 1]
    /\ history' = [history EXCEPT !.called = {}, !.failed = {}]
    /\ UNCHANGED db
    /\ UNCHANGED <<manager, client, pure, sync>>

\* CrawlCollection returns to its caller.
ReturnCollection ==
    /\ crawl.op = "CrawlCollection"
    /\ threads[0].pc = "returned"
    /\ crawl' = [crawl EXCEPT !.ret = threads[0].err]
    /\ threads' = [threads EXCEPT ![0] = IdleThread]
    /\ UNCHANGED <<db, conns, crawler, ctxDone, history>>
    /\ UNCHANGED <<manager, client, pure, sync>>

\* The caller makes a crawler and calls CrawlAll (part_002 262-277).
StartAll(force, reopen, max) ==
    /\ crawl.ret # Running
    /\ crawl.runs < max
    /\ crawler' = NewCrawler(force)
    /\ ctxDone' = FALSE
    /\ conns' = Reopened(conns, reopen)
    /\ crawl' = [op |-> "CrawlAll", pc |-> "root", rest |-> << >>, ret |-> Running,
                 runs |-> crawl.runs + 1]
    /\ history' = [history EXCEPT !.called = {}, !.failed = {}]
    /\ UNCHANGED <<db, threads>>
    /\ UNCHANGED <<manager, client, pure, sync>>

\* The index command with --workers (part_002 257-277): the caller makes a
\* crawler, sets its workers and calls CrawlAll on a new database.
StartAllWorkers(workers, max) ==
    /\ crawl.ret # Running
    /\ crawl.runs < max
    /\ crawler' = SetWorkers(NewCrawler(FALSE), workers)
    /\ ctxDone' = FALSE
    /\ conns' = Reopened(conns, TRUE)
    /\ crawl' = [op |-> "CrawlAll", pc |-> "root", rest |-> << >>, ret |-> Running,
                 runs |-> crawl.runs + 1]
    /\ history' = [history EXCEPT !.called = {}, !.failed = {}]
    /\ UNCHANGED <<db, threads>>
    /\ UNCHANGED <<manager, client, pure, sync>>

\* CrawlAll's listing of the root and the start of its workers (part_003 90-127).
ListRoot(W) ==
    LET collections == DirNames(Listing(Root))
        workers == IF crawler.workers > Len(collections) THEN Len(collections)
                   ELSE crawler.workers
    IN  /\ crawl.pc = "root"
        /\ \/ /\ ctxDone \/ W.network
              /\ crawl' = [crawl EXCEPT !.pc = "none", !.ret = ErrListingRoot]
              /\ UNCHANGED threads
           \/ /\ ~ctxDone
              /\ crawl' = [crawl EXCEPT !.pc = "send", !.rest = collections]
              /\ threads' = [w \in ThreadIDs |->
                               IF w \in 1..workers
                               THEN [IdleThread EXCEPT !.pc = "recv"] ELSE threads[w]]
        /\ UNCHANGED <<db, conns, crawler, ctxDone, history>>
        /\ UNCHANGED <<manager, client, pure, sync>>

\* A send that leaves the collection in the queue.
SendKeeps(w) ==
    /\ crawl.pc = "send"
    /\ crawl.rest # << >>
    /\ threads[w].pc = "recv"
    /\ threads' = [threads EXCEPT ![w].pc = "crawl", ![w].collection = Head(crawl.rest)]
    /\ crawl' = [crawl EXCEPT !.rest = IF Len(@) > 1 THEN @ ELSE Tail(@)]
    /\ UNCHANGED <<db, conns, crawler, ctxDone, history>>
    /\ UNCHANGED <<manager, client, pure, sync>>

\* The select of CrawlAll's loop takes the send (part_003 130-136): a worker
\* that waits on the channel receives the next collection. The select does not
\* prefer ctx.Done() when both are ready.
Send(w) ==
    /\ crawl.pc = "send"
    /\ crawl.rest # << >>
    /\ threads[w].pc = "recv"
    /\ threads' = [threads EXCEPT ![w].pc = "crawl", ![w].collection = Head(crawl.rest)]
    /\ crawl' = [crawl EXCEPT !.rest = Tail(@)]
    /\ UNCHANGED <<db, conns, crawler, ctxDone, history>>
    /\ UNCHANGED <<manager, client, pure, sync>>

\* A loop that only sends, without the ctx.Done() case in its select: the
\* cancellation does not wake it.
SendOnly ==
    /\ crawl.pc = "send"
    /\ ctxDone
    /\ FALSE
    /\ UNCHANGED <<db, conns, crawler, ctxDone, threads, crawl, history>>
    /\ UNCHANGED <<manager, client, pure, sync>>

\* The select takes ctx.Done(): the channel is closed, and CrawlAll will return
\* ctx.Err() once the workers are done (part_003 131-134).
SendCancelled ==
    /\ crawl.pc = "send"
    /\ crawl.rest # << >>
    /\ ctxDone
    /\ crawl' = [crawl EXCEPT !.pc = "cancelled"]
    /\ UNCHANGED <<db, conns, crawler, ctxDone, threads, history>>
    /\ UNCHANGED <<manager, client, pure, sync>>

\* All collections were sent: the channel is closed (part_003 138).
Close ==
    /\ crawl.pc = "send"
    /\ crawl.rest = << >>
    /\ crawl' = [crawl EXCEPT !.pc = "wait"]
    /\ UNCHANGED <<db, conns, crawler, ctxDone, threads, history>>
    /\ UNCHANGED <<manager, client, pure, sync>>

\* A worker finds the channel closed and is done (part_003 116, 113).
Exit(w) ==
    /\ crawl.pc \in {"wait", "cancelled"}
    /\ threads[w].pc = "recv"
    /\ threads' = [threads EXCEPT ![w].pc = "done"]
    /\ UNCHANGED <<db, conns, crawler, ctxDone, crawl, history>>
    /\ UNCHANGED <<manager, client, pure, sync>>

\* CrawlCollection has returned to a worker (part_003 117-124).
Returned(w) ==
    /\ crawl.op = "CrawlAll"
    /\ threads[w].pc = "returned"
    /\ IF threads[w].err = NoError
       THEN /\ threads' = [threads EXCEPT ![w].pc = "recv"]
            /\ UNCHANGED crawler
       ELSE IF ctxDone
       THEN /\ threads' = [threads EXCEPT ![w].pc = "done"]
            /\ UNCHANGED crawler
       ELSE /\ threads' = [threads EXCEPT ![w].pc = "recv", ![w].err = NoError]
            /\ crawler' = [crawler EXCEPT !.errCount = @ + 1]
    /\ UNCHANGED <<db, conns, ctxDone, crawl, history>>
    /\ UNCHANGED <<manager, client, pure, sync>>

\* wg.Wait() is over and CrawlAll returns (part_003 133-134, 139-144).
Wait ==
    /\ crawl.pc \in {"wait", "cancelled"}
    /\ \A w \in ThreadIDs : threads[w].pc \in {"off", "done"}
    /\ crawl' = [crawl EXCEPT !.pc = "none",
                              !.ret = IF crawl.pc = "cancelled" \/ ctxDone THEN ctxCanceled
                                      ELSE NoError]
    /\ threads' = [w \in ThreadIDs |-> IdleThread]
    /\ UNCHANGED <<db, conns, crawler, ctxDone, history>>
    /\ UNCHANGED <<manager, client, pure, sync>>

\* The caller's context is cancelled while the crawl runs (part_002 257-259).
CancelCrawl ==
    /\ crawl.ret = Running
    /\ ~ctxDone
    /\ ctxDone' = TRUE
    /\ UNCHANGED <<db, conns, crawler, threads, crawl, history>>
    /\ UNCHANGED <<manager, client, pure, sync>>

\* The index of a new database file, a pool of nConns connections and the
\* goroutines of a caller (0) and nWorkers workers, before any crawl.
IndexInit(nConns, nWorkers) ==
    /\ db = EmptyDB
    /\ conns = [c \in 1..nConns |-> 0]
    /\ crawler = NewCrawler(FALSE)
    /\ ctxDone = FALSE
    /\ threads = [w \in 0..nWorkers |-> IdleThread]
    /\ crawl = NoCrawl
    /\ history = NoHistory

\* A program that opens no index.
NoIndex == IndexInit(0, 0 - 1)

\* ---------------------------------------------------------------- the TUI's indexing of a browsed listing
\* Model.indexFromBrowseSnapshot (internal/tui/app.go 1605-1668) runs in a
\* goroutine of its own, with the entries of a directory that the browser has
\* fetched, on the database a crawler of the TUI may be writing to.

\* The root listing (app.go 1612-1622): one UpsertCollection for each directory.
RECURSIVE UpsertCollections(_, _, _)
UpsertCollections(D, rowid, names) ==
    IF names = << >> THEN [db |-> D, rowid |-> rowid]
    ELSE LET r == UpsertCollection(D, rowid, Head(names))
         IN  UpsertCollections(r.db, r.rowid, Tail(names))

\* The call with the snapshot of dir, up to UpsertCollection (app.go 1607-1628).
BrowseIndex(w, dir) ==
    /\ threads[w].pc = "off"
    /\ \E c \in DOMAIN conns :
         IF dir = Root
         THEN LET r == UpsertCollections(db, conns[c], DirNames(Listing(Root)))
              IN  /\ db' = r.db
                  /\ conns' = [conns EXCEPT ![c] = r.rowid]
                  /\ UNCHANGED threads
         ELSE LET r == UpsertCollection(db, conns[c], dir[1])
              IN  /\ db' = r.db
                  /\ conns' = [conns EXCEPT ![c] = r.rowid]
                  /\ threads' = [threads EXCEPT ![w] =
                                   [IdleThread EXCEPT !.pc = "browse", !.collection = dir[1],
                                      !.stack = <<[Frame(dir, r.id) EXCEPT !.pc = "upsert",
                                                      !.entries = Listing(dir)]>>]]
    /\ UNCHANGED <<crawler, ctxDone, crawl, history>>
    /\ UNCHANGED <<manager, client, pure, sync>>

Browsing(w, pc) ==
    /\ threads[w].pc = "browse"
    /\ threads[w].stack[1].pc = pc

\* UpsertDirectory (app.go 1634-1637).
BrowseUpsert(w) ==
    LET f == threads[w].stack[1]
    IN  /\ Browsing(w, "upsert")
        /\ \E c \in DOMAIN conns :
             LET r == UpsertDirectory(db, conns[c], f.path, f.colID)
             IN  /\ db' = r.db
                 /\ conns' = [conns EXCEPT ![c] = r.rowid]
                 /\ threads' = [threads EXCEPT ![w].stack[1].pc = "clear",
                                               ![w].stack[1].dirID = r.id]
        /\ UNCHANGED <<crawler, ctxDone, crawl, history>>
        /\ UNCHANGED <<manager, client, pure, sync>>

\* ClearDirectoryFiles (app.go 1639-1641).
BrowseClear(w) ==
    LET f == threads[w].stack[1]
    IN  /\ Browsing(w, "clear")
        /\ db' = ClearDirectoryFiles(db, f.dirID)
        /\ threads' = [threads EXCEPT ![w].stack[1].pc =
                          IF FileNames(f.entries) # << >> THEN "insert" ELSE "mark"]
        /\ UNCHANGED <<conns, crawler, ctxDone, crawl, history>>
        /\ UNCHANGED <<manager, client, pure, sync>>

\* InsertFileBatch of a snapshot with files (app.go 1643-1662): it commits, or
\* it fails and the function returns the error.
BrowseInsert(w, W) ==
    LET f == threads[w].stack[1]
        files == FileRecords(f.path, f.entries, f.dirID)
    IN  /\ Browsing(w, "insert")
        /\ \/ /\ W.storage
              /\ threads' = [threads EXCEPT ![w] = IdleThread]
              /\ UNCHANGED <<db, conns>>
           \/ /\ \E c \in DOMAIN conns :
                   /\ db' = InsertFiles(db, files)
                   /\ conns' = [conns EXCEPT ![c] = db'.seq.files]
              /\ threads' = [threads EXCEPT ![w].stack[1].pc = "mark"]
        /\ UNCHANGED <<crawler, ctxDone, crawl, history>>
        /\ UNCHANGED <<manager, client, pure, sync>>

\* MarkDirectoryCrawled and the return (app.go 1663-1666).
BrowseMark(w) ==
    LET f == threads[w].stack[1]
    IN  /\ Browsing(w, "mark")
        /\ db' = MarkDirectoryCrawled(db, f.dirID, now)
        /\ threads' = [threads EXCEPT ![w] = IdleThread]
        /\ UNCHANGED <<conns, crawler, ctxDone, crawl, history>>
        /\ UNCHANGED <<manager, client, pure, sync>>

\* ---------------------------------------------------------------- Client
\* The burst of the client's limiter (part_002 888).
Burst == 5

\* The errors of the client's methods for a response it refuses.
ErrStatus == "HTTP status"
ErrHTML == "refusing HTML response"

\* The statuses a server answers with: http.StatusOK, StatusPartialContent and
\* some of the others.
StatusOK == 200
StatusPartialContent == 206
Statuses3xx5xx == {204, 301, 404, 500}
HTTPStatuses == {StatusOK, StatusPartialContent} \cup Statuses3xx5xx

\* The Content-Type headers of the responses.
ContentTypes ==
    {<<"a", "p", "p", "/", "z", "i", "p">>,
     <<"t", "e", "x", "t", "/", "h", "t", "m", "l">>,
     <<"T", "e", "x", "t", "/", "H", "T", "M", "L", ";", "u", "t", "f", "8">>,
     <<"t", "e", "x", "t", "/", "p", "l", "a", "i", "n">>}

\* The file URLs a download is asked for, by their last characters.
FileURLs ==
    {<<"f", ".", "z", "i", "p">>,
     <<"p", ".", "h", "t", "m", "l">>,
     <<"P", ".", "H", "T", "M">>,
     <<"h", "t", "m", "l">>}

\* The URL of a listing.
DirURL == <<"d", "/">>

\* A caller that is in no method of the client.
IdleCaller ==
    [method |-> "none", pc |-> "idle", ctxDone |-> FALSE, token |-> FALSE, sent |-> FALSE,
     err |-> NoError, url |-> << >>, status |-> 0, ctype |-> << >>, body |-> FALSE]

\* What DownloadFile makes of a response (part_002 957-972): the error and
\* whether the body is handed to the caller.
RefusesHTML(fileURL, contentType) ==
    /\ Contains(ToLower(contentType), <<"t", "e", "x", "t", "/", "h", "t", "m", "l">>)
    /\ ~HasSuffix(ToLower(fileURL), <<".", "h", "t", "m", "l">>)
    /\ ~HasSuffix(ToLower(fileURL), <<".", "h", "t", "m">>)

\* A DownloadFile that takes any response with status 200 or 206.
DownloadResultAnyType(fileURL, status, contentType) ==
    IF status # StatusOK /\ status # StatusPartialContent THEN ErrStatus
    ELSE NoError

DownloadResult(fileURL, status, contentType) ==
    IF status # StatusOK /\ status # StatusPartialContent THEN ErrStatus
    ELSE IF RefusesHTML(fileURL, contentType) THEN ErrHTML
    ELSE NoError

\* What ListDirectory makes of a response (part_002 923-927); the page of a
\* 200 is parsed.
ListResult(status) == IF status # StatusOK THEN ErrStatus ELSE NoError

\* client.New (part_002 874-891) with n goroutines that will call it: the
\* limiter's bucket is full.
ClientInit(n) ==
    /\ limiter = Burst
    /\ callers = [c \in 1..n |-> IdleCaller]

\* A program that makes no client.
NoClient == ClientInit(0)

CallerIDs == DOMAIN callers

\* A goroutine calls ListDirectory or DownloadFile with its context, which may
\* be cancelled already.
Call(c, method, done) ==
    /\ callers[c].pc = "idle"
    /\ UNCHANGED <<manager, index, pure, sync>>
    /\ \E url \in IF method = "DownloadFile" THEN FileURLs ELSE {DirURL} :
         callers' = [callers EXCEPT ![c] = [IdleCaller EXCEPT !.method = method, !.pc = "wait",
                                                              !.ctxDone = done, !.url = url]]
    /\ UNCHANGED limiter

\* The caller's context is cancelled while it is in the method.
CancelCaller(c) ==
    /\ callers[c].pc \in {"wait", "do"}
    /\ UNCHANGED <<manager, index, pure, sync>>
    /\ ~callers[c].ctxDone
    /\ callers' = [callers EXCEPT ![c].ctxDone = TRUE]
    /\ UNCHANGED limiter

\* A DownloadFile that does not wait for the limiter.
WaitListingsOnly(c) ==
    /\ callers[c].pc = "wait"
    /\ UNCHANGED <<manager, index, pure, sync>>
    /\ IF callers[c].method = "DownloadFile"
       THEN /\ callers' = [callers EXCEPT ![c].pc = "do"]
            /\ UNCHANGED limiter
       ELSE IF callers[c].ctxDone
       THEN /\ callers' = [callers EXCEPT ![c].pc = "done", ![c].err = ctxCanceled]
            /\ UNCHANGED limiter
       ELSE /\ limiter > 0
            /\ limiter' = limiter - 1
            /\ callers' = [callers EXCEPT ![c].pc = "do", ![c].token = TRUE]

\* c.limiter.Wait(ctx) at the start of both methods (part_002 901-903,
\* 933-935): it fails on a cancelled context, and the method returns the error;
\* otherwise it returns once it has taken a token, which it waits for while the
\* bucket is empty.
LimiterWait(c) ==
    /\ callers[c].pc = "wait"
    /\ UNCHANGED <<manager, index, pure, sync>>
    /\ IF callers[c].ctxDone
       THEN /\ callers' = [callers EXCEPT ![c].pc = "done", ![c].err = ctxCanceled]
            /\ UNCHANGED limiter
       ELSE /\ limiter > 0
            /\ limiter' = limiter - 1
            /\ callers' = [callers EXCEPT ![c].pc = "do", ![c].token = TRUE]

\* c.listHTTP.Do(req) and c.dlHTTP.Do(req) (part_002 917, 952) and what the
\* method makes of the outcome (918-927, 953-972): the request fails, or a
\* response arrives, which the method refuses or accepts.
Do(c, W) ==
    /\ callers[c].pc = "do"
    /\ UNCHANGED <<manager, index, pure, sync>>
    /\ \/ \E err \in (IF W.network THEN {ErrNetwork} ELSE {})
                         \cup (IF callers[c].ctxDone THEN {ctxCanceled} ELSE {}) :
            callers' = [callers EXCEPT ![c].pc = "done", ![c].sent = TRUE, ![c].err = err]
       \/ \E status \in HTTPStatuses, contentType \in ContentTypes :
            LET err == IF callers[c].method = "DownloadFile"
                       THEN DownloadResult(callers[c].url, status, contentType)
                       ELSE ListResult(status)
            IN  callers' = [callers EXCEPT ![c].pc = "done", ![c].sent = TRUE,
                                           ![c].status = status, ![c].ctype = contentType,
                                           ![c].err = err,
                                           ![c].body = (callers[c].method = "DownloadFile"
                                                        /\ err = NoError)]
    /\ UNCHANGED limiter

\* The method returns.
Done(c) ==
    /\ callers[c].pc = "done"
    /\ UNCHANGED <<manager, index, pure, sync>>
    /\ callers' = [callers EXCEPT ![c] = IdleCaller]
    /\ UNCHANGED limiter

\* Time passes, and the limiter's bucket, if not full, gets a token.
Refill ==
    /\ limiter < Burst
    /\ UNCHANGED <<manager, index, pure, sync>>
    /\ limiter' = limiter + 1
    /\ UNCHANGED callers

\* SpecClient: two goroutines that call one client again and again; requests
\* can fail.
Callers == 2

ClientWorld == [network |-> TRUE]

ClientStart ==
    NewManager(0, 0, 0) /\ NotifyInit(FALSE) /\ NoIndex /\ ClientInit(Callers) /\ NoPure
    /\ NoSync

ClientNext ==
    \/ \E c \in CallerIDs, method \in {"ListDirectory", "DownloadFile"}, done \in BOOLEAN :
         Call(c, method, done)
    \/ \E c \in CallerIDs : CancelCaller(c)
    \/ \E c \in CallerIDs : LimiterWait(c)
    \/ \E c \in CallerIDs : Do(c, ClientWorld)
    \/ \E c \in CallerIDs : Done(c)
    \/ Refill

SpecClient == ClientStart /\ [][ClientNext]_allvars


\* ---------------------------------------------------------------- Search
Space == " "
Quote == "\""

\* The characters the strings.NewReplacer in sanitizeFTS5Query removes
\* (part_003 434-442).
Stripped == {"(", ")", "[", "]", "{", "}", "^"}

\* strings.TrimSpace.
RECURSIVE TrimLeft(_)
TrimLeft(s) == IF s # << >> /\ Head(s) = Space THEN TrimLeft(Tail(s)) ELSE s

RECURSIVE TrimRight(_)
TrimRight(s) ==
    IF s # << >> /\ s[Len(s)] = Space THEN TrimRight(SubSeq(s, 1, Len(s) - 1)) ELSE s

TrimSpace(s) == TrimRight(TrimLeft(s))

\* strings.Fields: the scan from i on, cur being the field that is being read.
RECURSIVE FieldsFrom(_, _, _)
FieldsFrom(s, i, cur) ==
    IF i > Len(s) THEN (IF cur = << >> THEN << >> ELSE <<cur>>)
    ELSE IF s[i] = Space
    THEN (IF cur = << >> THEN << >> ELSE <<cur>>) \o FieldsFrom(s, i + 1, << >>)
    ELSE FieldsFrom(s, i + 1, Append(cur, s[i]))

Fields(s) == FieldsFrom(s, 1, << >>)

\* strings.ReplaceAll(w, `"`, `""`).
RECURSIVE DoubleQuotes(_)
DoubleQuotes(w) ==
    IF w = << >> THEN << >>
    ELSE (IF Head(w) = Quote THEN <<Quote, Quote>> ELSE <<Head(w)>>) \o DoubleQuotes(Tail(w))

\* The Replacer's Replace.
Strip(w) == SelectSeq(w, LAMBDA c : c \notin Stripped)

\* strings.Join(words, " ").
RECURSIVE Join1(_)
Join1(words) ==
    IF words = << >> THEN << >>
    ELSE IF Len(words) = 1 THEN words[1]
    ELSE words[1] \o <<Space>> \o Join1(Tail(words))

\* The loop of sanitizeFTS5Query over the words (part_003 425-447).
RECURSIVE QuoteWords(_)
QuoteWords(words) ==
    IF words = << >> THEN << >>
    ELSE LET w == Strip(DoubleQuotes(TrimSpace(Head(words))))
         IN  (IF w = << >> THEN << >> ELSE <<(<<Quote>> \o w \o <<Quote>>)>>)
                 \o QuoteWords(Tail(words))

\* A sanitizeFTS5Query that quotes the words as they are.
sanitizeUnescaped(query) ==
    LET q == TrimSpace(query)
        quoted == [i \in DOMAIN Fields(q) |-> <<Quote>> \o Strip(Fields(q)[i]) \o <<Quote>>]
    IN  IF q = << >> THEN << >> ELSE Join1(quoted)

\* sanitizeFTS5Query (part_003 415-452).
sanitizeFTS5Query(query) ==
    LET q == TrimSpace(query)
    IN  IF q = << >> THEN << >> ELSE Join1(QuoteWords(Fields(q)))

\* The characters of a token of the unicode61 tokenizer (part_003 366).
Letters == {"a", "b"}

\* The tokens of a text: its maximal runs of letters.
RECURSIVE TokensFrom(_, _, _)
TokensFrom(s, i, cur) ==
    IF i > Len(s) THEN (IF cur = << >> THEN << >> ELSE <<cur>>)
    ELSE IF s[i] \notin Letters
    THEN (IF cur = << >> THEN << >> ELSE <<cur>>) \o TokensFrom(s, i + 1, << >>)
    ELSE TokensFrom(s, i + 1, Append(cur, s[i]))

Tokenize(s) == TokensFrom(s, 1, << >>)

\* An FTS5 string that starts after the quote at i - 1: its text, with "" read
\* as one quote, and the position after its closing quote; not ok when the
\* query ends before the string does.
RECURSIVE ReadString(_, _, _)
ReadString(q, i, text) ==
    IF i > Len(q) THEN [ok |-> FALSE, text |-> text, next |-> i]
    ELSE IF q[i] # Quote THEN ReadString(q, i + 1, Append(text, q[i]))
    ELSE IF i < Len(q) /\ q[i + 1] = Quote THEN ReadString(q, i + 2, Append(text, Quote))
    ELSE [ok |-> TRUE, text |-> text, next |-> i + 1]

\* An FTS5 bareword from i on: a run of letters.
RECURSIVE ReadBareword(_, _, _)
ReadBareword(q, i, text) ==
    IF i <= Len(q) /\ q[i] \in Letters THEN ReadBareword(q, i + 1, Append(text, q[i]))
    ELSE [ok |-> TRUE, text |-> text, next |-> i]

\* The MATCH argument read as a list of phrases (strings and barewords
\* separated by white space, which FTS5 joins with AND): the phrases, or not
\* ok for a string that does not end and for any character outside of the
\* phrases, which FTS5 reads as an operator or refuses.
RECURSIVE PhrasesFrom(_, _)
PhrasesFrom(q, i) ==
    IF i > Len(q) THEN [ok |-> TRUE, phrases |-> << >>]
    ELSE IF q[i] = Space THEN PhrasesFrom(q, i + 1)
    ELSE IF q[i] = Quote \/ q[i] \in Letters
    THEN LET p == IF q[i] = Quote THEN ReadString(q, i + 1, << >>)
                  ELSE ReadBareword(q, i, << >>)
             rest == PhrasesFrom(q, p.next)
         IN  IF p.ok /\ rest.ok
             THEN [ok |-> TRUE, phrases |-> <<p.text>> \o rest.phrases]
             ELSE [ok |-> FALSE, phrases |-> << >>]
    ELSE [ok |-> FALSE, phrases |-> << >>]

FTS5Phrases(q) == PhrasesFrom(q, 1)

\* A phrase occurs in a column: its tokens, of which there is at least one, are
\* consecutive tokens of the column's text.
PhraseIn(phrase, text) ==
    LET p == Tokenize(phrase)
        t == Tokenize(text)
    IN  /\ p # << >>
        /\ \E i \in 1..(Len(t) - Len(p) + 1) : SubSeq(t, i, i + Len(p) - 1) = p

\* The rows of files_fts (part_003 361-371): name and path of each file.
IndexedFiles ==
    {[name |-> <<"a">>, path |-> <<"b", "/", "a">>],
     [name |-> <<"a", " ", "(", "b", ")">>, path |-> <<"c", "/", "a", " ", "(", "b", ")">>],
     [name |-> <<"b", "a">>, path |-> <<"c", "/", "b", "a">>],
     [name |-> <<"a", "b">>, path |-> <<"c", "/", "a", "b">>]}

ErrSearch == "search query failed"

\* DB.Search (part_003 583-620): what was handed to MATCH, the rows and the
\* error.
Search(query) ==
    LET sanitized == sanitizeFTS5Query(query)
        parsed == FTS5Phrases(sanitized)
    IN  IF sanitized = << >>
        THEN [match |-> << >>, rows |-> {}, err |-> NoError]
        ELSE IF ~parsed.ok
        THEN [match |-> sanitized, rows |-> {}, err |-> ErrSearch]
        ELSE [match |-> sanitized,
              rows |-> {f \in IndexedFiles :
                          \A i \in DOMAIN parsed.phrases :
                              \/ PhraseIn(parsed.phrases[i], f.name)
                              \/ PhraseIn(parsed.phrases[i], f.path)},
              err |-> NoError]

\* The raw queries: the strings of up to MaxQueryLen of these characters.
MaxQueryLen == 4

QueryChars == {"a", "b", Space, "(", Quote, "^"}

Queries == UNION {[1..n -> QueryChars] : n \in 0..MaxQueryLen}

\* SpecSearch: one call of Search with any raw query.
SearchStart ==
    /\ NewManager(0, 0, 0) /\ NotifyInit(FALSE) /\ NoIndex /\ NoClient
    /\ \E q \in Queries : pure = [fn |-> "Search", query |-> q, pc |-> "start"]
    /\ NoSync

SearchCall ==
    /\ pure.fn = "Search"
    /\ pure.pc = "start"
    /\ pure' = [fn |-> "Search", query |-> pure.query, pc |-> "done",
                ret |-> Search(pure.query)]
    /\ UNCHANGED <<manager, index, client, sync>>

SpecSearch == SearchStart /\ [][SearchCall]_allvars

\* ---------------------------------------------------------------- directory listings
\* strings.Cut(s, c): the part before the first c, the part after it, and
\* whether there is one.
IndexOf(s, c) ==
    IF \E i \in DOMAIN s : s[i] = c THEN Min({i \in DOMAIN s : s[i] = c}) ELSE 0

LastIndexOf(s, c) ==
    IF \E i \in DOMAIN s : s[i] = c
    THEN CHOOSE i \in DOMAIN s : s[i] = c /\ \A j \in DOMAIN s : s[j] = c => j <= i
    ELSE 0

Cut(s, c) ==
    LET i == IndexOf(s, c)
    IN  IF i = 0 THEN [before |-> s, after |-> << >>, found |-> FALSE]
        ELSE [before |-> SubSeq(s, 1, i - 1), after |-> SubSeq(s, i + 1, Len(s)), found |-> TRUE]

\* strings.Split(s, "/").
RECURSIVE Split(_, _)
Split(s, c) ==
    LET p == Cut(s, c)
    IN  IF p.found THEN <<p.before>> \o Split(p.after, c) ELSE <<s>>

\* strings.Join(elems, "/").
RECURSIVE JoinWith(_, _)
JoinWith(elems, c) ==
    IF elems = << >> THEN << >>
    ELSE IF Len(elems) = 1 THEN elems[1]
    ELSE elems[1] \o <<c>> \o JoinWith(Tail(elems), c)

\* strings.TrimSuffix(s, "/").
TrimSlash(s) == IF HasSuffix(s, <<"/">>) THEN SubSeq(s, 1, Len(s) - 1) ELSE s

\* The characters of a URL scheme after its first letter (net/url getScheme).
SchemeChars == {LowerLetters[i] : i \in DOMAIN LowerLetters}
                   \cup {UpperLetters[i] : i \in DOMAIN UpperLetters} \cup {"+", "-", "."}

\* net/url getScheme: the scheme and the rest, or an error for a URL that
\* starts with a colon.
SchemeOf(s) ==
    LET i == IndexOf(s, ":")
    IN  IF i = 1 THEN [ok |-> FALSE, scheme |-> << >>, rest |-> s]
        ELSE IF i > 1 /\ \A k \in 1..(i - 1) : s[k] \in SchemeChars
        THEN [ok |-> TRUE, scheme |-> SubSeq(s, 1, i - 1), rest |-> SubSeq(s, i + 1, Len(s))]
        ELSE [ok |-> TRUE, scheme |-> << >>, rest |-> s]

NoURL ==
    [ok |-> FALSE, scheme |-> << >>, opaque |-> << >>, host |-> << >>, path |-> << >>,
     query |-> << >>, hasQuery |-> FALSE, fragment |-> << >>, hasFragment |-> FALSE]

\* url.Parse: fragment, scheme, query, then an opaque part or authority and
\* path. A first path segment with a colon and no scheme is an error.
ParseURL(raw) ==
    LET f == Cut(raw, "#")
        sch == SchemeOf(f.before)
        q == Cut(sch.rest, "?")
        rest == q.before
        u == [NoURL EXCEPT !.ok = TRUE, !.scheme = ToLower(sch.scheme),
                           !.query = q.after, !.hasQuery = q.found,
                           !.fragment = f.after, !.hasFragment = f.found]
    IN  IF ~sch.ok THEN NoURL
        ELSE IF ~HasPrefix(rest, <<"/">>) /\ sch.scheme # << >>
        THEN [u EXCEPT !.opaque = rest]
        ELSE IF ~HasPrefix(rest, <<"/">>) /\ IndexOf(Cut(rest, "/").before, ":") > 0
        THEN NoURL
        ELSE IF HasPrefix(rest, <<"/", "/">>) /\ ~HasPrefix(rest, <<"/", "/", "/">>)
        THEN LET a == Cut(SubSeq(rest, 3, Len(rest)), "/")
             IN  [u EXCEPT !.host = a.before,
                           !.path = IF a.found THEN <<"/">> \o a.after ELSE << >>]
        ELSE [u EXCEPT !.path = rest]

\* The loop of net/url resolvePath over the elements of the path: what is
\* written so far, without . and with .. taking the last element away.
RECURSIVE RemoveDots(_, _)
RemoveDots(elems, dst) ==
    IF elems = << >> THEN dst
    ELSE IF Head(elems) = <<".">> THEN RemoveDots(Tail(elems), dst)
    ELSE IF Head(elems) = <<".", ".">>
    THEN RemoveDots(Tail(elems), IF dst = << >> THEN << >> ELSE SubSeq(dst, 1, Len(dst) - 1))
    ELSE RemoveDots(Tail(elems), Append(dst, Head(elems)))

\* net/url resolvePath(base, ref).
ResolvePath(base, ref) ==
    LET full == IF ref = << >> THEN base
                ELSE IF Head(ref) # "/" THEN SubSeq(base, 1, LastIndexOf(base, "/")) \o ref
                ELSE ref
        elems == Split(full, "/")
        last == elems[Len(elems)]
        r == <<"/">> \o JoinWith(RemoveDots(elems, << >>), "/")
                 \o (IF last = <<".">> \/ last = <<".", ".">> THEN <<"/">> ELSE << >>)
    IN  IF full = << >> THEN << >>
        ELSE IF Len(r) > 1 /\ r[2] = "/" THEN Tail(r)
        ELSE r

\* URL.String.
URLString(u) ==
    (IF u.scheme # << >> THEN u.scheme \o <<":">> ELSE << >>)
        \o (IF u.opaque # << >> THEN u.opaque
            ELSE (IF u.scheme # << >> \/ u.host # << >>
                  THEN (IF u.host # << >> \/ u.path # << >> THEN <<"/", "/">> ELSE << >>) \o u.host
                  ELSE << >>) \o u.path)
        \o (IF u.hasQuery THEN <<"?">> \o u.query ELSE << >>)
        \o (IF u.hasFragment THEN <<"#">> \o u.fragment ELSE << >>)

\* URL.ResolveReference.
ResolveReference(u, ref) ==
    LET url == IF ref.scheme = << >> THEN [ref EXCEPT !.scheme = u.scheme] ELSE ref
    IN  IF ref.scheme # << >> \/ ref.host # << >>
        THEN [url EXCEPT !.path = ResolvePath(ref.path, << >>)]
        ELSE IF ref.opaque # << >>
        THEN [url EXCEPT !.host = << >>, !.path = << >>]
        ELSE LET inherit == ref.path = << >> /\ ~ref.hasQuery
                 v == IF inherit
                      THEN [url EXCEPT !.query = u.query, !.hasQuery = u.hasQuery,
                                       !.fragment = IF ref.hasFragment THEN ref.fragment
                                                    ELSE u.fragment,
                                       !.hasFragment = ref.hasFragment \/ u.hasFragment]
                      ELSE url
             IN  [v EXCEPT !.host = u.host, !.path = ResolvePath(u.path, ref.path)]

\* resolveURL (part_002 1112-1122).
resolveURL(base, ref) ==
    LET baseURL == ParseURL(base)
        relURL == ParseURL(ref)
    IN  IF ~baseURL.ok \/ ~relURL.ok THEN [ok |-> FALSE, url |-> << >>]
        ELSE [ok |-> TRUE, url |-> URLString(ResolveReference(baseURL, relURL))]

\* pathBase (part_002 1124-1138).
pathBase(link) ==
    LET parsed == ParseURL(link)
        path == TrimSlash(parsed.path)
    IN  IF ~parsed.ok \/ path = << >> THEN << >>
        ELSE SubSeq(path, LastIndexOf(path, "/") + 1, Len(path))

\* url.PathUnescape: %20 becomes a space; any other % is an error.
RECURSIVE Unescaped(_)
Unescaped(s) ==
    IF s = << >> THEN << >>
    ELSE IF HasPrefix(s, <<"%", "2", "0">>) THEN <<Space>> \o Unescaped(SubSeq(s, 4, Len(s)))
    ELSE <<Head(s)>> \o Unescaped(Tail(s))

PathUnescape(s) ==
    IF \E i \in DOMAIN s : s[i] = "%" /\ ~HasPrefix(SubSeq(s, i, Len(s)), <<"%", "2", "0">>)
    THEN s
    ELSE Unescaped(s)

\* An <a> element: its href, its title and its text.
Anchor(href, title, text) == [href |-> href, title |-> title, text |-> text]

\* A cell of a table row: a td or another child of the tr, the text before
\* its links, and its links.
Cell(td, text, links) == [td |-> td, text |-> text, links |-> links]

\* textContent (part_002 1173-1182) of a cell.
RECURSIVE LinkTexts(_)
LinkTexts(links) == IF links = << >> THEN << >> ELSE Head(links).text \o LinkTexts(Tail(links))

textContent(cell) == cell.text \o LinkTexts(cell.links)

\* findLink (part_002 1141-1170) on an <a>: href, and title or trimmed text.
findLinkA(a) == [href |-> a.href, name |-> IF a.title # << >> THEN a.title ELSE TrimSpace(a.text)]

\* findLink on a cell: the first <a> in it with an href.
findLink(cell) ==
    LET with == SelectSeq(cell.links, LAMBDA a : a.href # << >>)
    IN  IF with = << >> THEN [href |-> << >>, name |-> << >>] ELSE findLinkA(Head(with))

NoEntry == [ok |-> FALSE, Name |-> << >>, URL |-> << >>, Size |-> << >>, Date |-> << >>, IsDir |-> FALSE]

\* parseTableRow (part_002 1014-1072) on the children of a <tr>.
parseTableRow(tr, dirURL) ==
    LET cells == SelectSeq(tr, LAMBDA c : c.td)
        l == findLink(cells[1])
        link == l.href
        name == l.name
        fullURL == resolveURL(dirURL, link)
    IN  IF Len(cells) < 1 THEN NoEntry
        ELSE IF link = << >> \/ name = << >> THEN NoEntry
        ELSE IF name = <<".">> \/ name = <<".", ".">> \/ link = <<".", ".", "/">>
                    \/ link = <<".", "/">> THEN NoEntry
        ELSE IF name = <<"P", "a", "r", "e", "n", "t", " ", "d", "i", "r", "e", "c", "t", "o", "r", "y", "/">> THEN NoEntry
        ELSE IF ~fullURL.ok THEN NoEntry
        ELSE [ok |-> TRUE, Name |-> PathUnescape(TrimSlash(name)), URL |-> fullURL.url,
              Size |-> IF Len(cells) > 1 THEN TrimSpace(textContent(cells[2])) ELSE << >>,
              Date |-> IF Len(cells) > 2 THEN TrimSpace(textContent(cells[3])) ELSE << >>,
              IsDir |-> HasSuffix(link, <<"/">>)]

\* parseAnchorLink (part_002 1074-1110).
parseAnchorLink(a, dirURL) ==
    LET l == findLinkA(a)
        link == l.href
        name == IF l.name = << >> THEN TrimSlash(pathBase(link)) ELSE l.name
        fullURL == resolveURL(dirURL, link)
    IN  IF link = << >> THEN NoEntry
        ELSE IF HasPrefix(link, <<"#">>) \/ HasPrefix(link, <<"?">>) THEN NoEntry
        ELSE IF HasPrefix(ToLower(link), <<"j", "a", "v", "a", "s", "c", "r", "i", "p", "t", ":">>) THEN NoEntry
        ELSE IF name = << >> \/ name = <<".">> \/ name = <<".", ".">>
                    \/ link = <<".", ".", "/">> \/ link = <<".", "/">> THEN NoEntry
        ELSE IF \/ ToLower(TrimSpace(name)) = ToLower(<<"P", "a", "r", "e", "n", "t", " ", "D", "i", "r", "e", "c", "t", "o", "r", "y">>)
                \/ ToLower(TrimSpace(name)) = ToLower(<<"P", "a", "r", "e", "n", "t", " ", "d", "i", "r", "e", "c", "t", "o", "r", "y", "/">>) THEN NoEntry
        ELSE IF ~fullURL.ok THEN NoEntry
        ELSE [ok |-> TRUE, Name |-> TrimSpace(PathUnescape(TrimSlash(name))),
              URL |-> fullURL.url, Size |-> << >>, Date |-> << >>,
              IsDir |-> HasSuffix(link, <<"/">>)]

\* The links of the cells of a row, in the order of the document.
RECURSIVE RowLinks(_)
RowLinks(tr) == IF tr = << >> THEN << >> ELSE Head(tr).links \o RowLinks(Tail(tr))

\* A node of the document: a <tr> with its cells, or an <a> outside of a row.
RowNode(cells) == [tag |-> "tr", cells |-> cells]
AnchorNode(a) == [tag |-> "a", a |-> a]

\* What walk (part_002 985-1007) gets from the parse functions on its way
\* through the document: at a <tr> the row's entry, then, in the row, the entry
\* of each <a>.
RECURSIVE Parsed(_, _)
Parsed(doc, dirURL) ==
    IF doc = << >> THEN << >>
    ELSE LET n == Head(doc)
         IN  (IF n.tag = "tr"
              THEN <<parseTableRow(n.cells, dirURL)>>
                       \o [i \in DOMAIN RowLinks(n.cells) |->
                              parseAnchorLink(RowLinks(n.cells)[i], dirURL)]
              ELSE <<parseAnchorLink(n.a, dirURL)>>)
                 \o Parsed(Tail(doc), dirURL)

\* A walk that appends every entry.
RECURSIVE AppendAll(_, _, _)
AppendAll(parsed, entries, seen) ==
    IF parsed = << >> THEN entries
    ELSE AppendAll(Tail(parsed),
                   IF Head(parsed).ok THEN Append(entries, Head(parsed)) ELSE entries, seen)

\* The entries and the seen map of walk: an entry is appended unless its URL
\* was seen (part_002 987-1002).
RECURSIVE AppendUnseen(_, _, _)
AppendUnseen(parsed, entries, seen) ==
    IF parsed = << >> THEN entries
    ELSE LET e == Head(parsed)
         IN  IF e.ok /\ e.URL \notin seen
             THEN AppendUnseen(Tail(parsed), Append(entries, e), seen \cup {e.URL})
             ELSE AppendUnseen(Tail(parsed), entries, seen)

\* parseDirectoryListing (part_002 976-1011) on a parsed document.
parseDirectoryListing(doc, dirURL) == AppendUnseen(Parsed(doc, dirURL), << >>, {})

\* The listing that is parsed, and links of its page.
ListingURL == <<"h", "t", "t", "p", "s", ":", "/", "/", "h", "/", "f", "/">>

\* A file of the directory.
LinkFile == Anchor(<<"g">>, << >>, <<"g">>)
\* A subdirectory.
LinkDir == Anchor(<<"D", "/">>, << >>, <<"D", "/">>)
\* The sort link of a column header.
LinkSort == Anchor(<<"?", "C", "=", "N">>, << >>, <<"N", "a", "m", "e">>)
\* The parent directory.
LinkParent == Anchor(<<".", ".", "/">>, << >>, <<"P", "a", "r", "e", "n", "t", " ", "D", "i", "r", "e", "c", "t", "o", "r", "y">>)
\* The directory itself.
LinkSelf == Anchor(<<".", "/">>, << >>, <<".">>)
\* Another page of the site.
LinkSibling == Anchor(<<"/", "d", "/">>, << >>, <<"D", "o", "n", "a", "t", "e">>)
\* A file on another host.
LinkOtherHost == Anchor(<<"h", "t", "t", "p", "s", ":", "/", "/", "e", "/", "g">>, << >>, <<"e", "v", "i", "l">>)
\* A data: URL.
LinkData == Anchor(<<"d", "a", "t", "a", ":", "x">>, << >>, <<"b", "a", "d">>)
\* A javascript: URL.
LinkScript == Anchor(<<"J", "a", "v", "a", "S", "c", "r", "i", "p", "t", ":", "x">>, << >>, <<"j", "s">>)
\* A subdirectory by its absolute path.
LinkAbsChild == Anchor(<<"/", "f", "/", "N", "/">>, << >>, <<"N", "/">>)
\* A path that starts like the directory's.
LinkLookalike == Anchor(<<"/", "f", "s", "/", "d", "/">>, << >>, <<"d", "/">>)
\* The file by its absolute URL.
LinkAbsFile == Anchor(<<"h", "t", "t", "p", "s", ":", "/", "/", "h", "/", "f", "/", "g">>, << >>, <<"g">>)
\* The root, named as the parent.
LinkUp == Anchor(<<"/">>, << >>, <<"P", "a", "r", "e", "n", "t", " ", "D", "i", "r", "e", "c", "t", "o", "r", "y">>)
\* A file with an escaped name.
LinkEscaped == Anchor(<<"a", "%", "2", "0", "b">>, << >>, <<"a", " ", "b">>)
\* A file with a title and no text.
LinkTitled == Anchor(<<"t">>, <<"T">>, << >>)

Links ==
    {LinkFile, LinkDir, LinkSort, LinkParent, LinkSelf,
     LinkSibling, LinkOtherHost, LinkData, LinkScript, LinkAbsChild,
     LinkLookalike, LinkAbsFile, LinkUp, LinkEscaped, LinkTitled}

\* The nodes of a page: a link outside of a table, a row of a link, a size and
\* a date, a header row, a row whose link cell comes after a header cell with
\* another link, and a row with two links in its first cell.
SizeText == <<"1", "M">>
DateText == <<" ", "2", "0", "2", "6", " ">>

Nodes ==
    {AnchorNode(l) : l \in Links}
        \cup {RowNode(<<Cell(TRUE, << >>, <<l>>), Cell(TRUE, SizeText, << >>),
                        Cell(TRUE, DateText, << >>)>>) : l \in Links}
        \cup {RowNode(<<Cell(FALSE, << >>, <<LinkSort>>)>>),
              RowNode(<<Cell(FALSE, << >>, <<LinkDir>>), Cell(TRUE, << >>, <<LinkFile>>)>>),
              RowNode(<<Cell(TRUE, << >>, <<LinkFile, LinkDir>>)>>)}

\* The pages: up to MaxNodes nodes.
MaxNodes == 2

Documents == UNION {[1..n -> Nodes] : n \in 0..MaxNodes}

\* SpecListing: one call of parseDirectoryListing on any page.
ListingStart ==
    /\ NewManager(0, 0, 0) /\ NotifyInit(FALSE) /\ NoIndex /\ NoClient
    /\ \E doc \in Documents : pure = [fn |-> "parseDirectoryListing", doc |-> doc, pc |-> "start"]
    /\ NoSync

ParseCall ==
    /\ pure.fn = "parseDirectoryListing"
    /\ pure.pc = "start"
    /\ pure' = [fn |-> "parseDirectoryListing", doc |-> pure.doc, pc |-> "done",
                ret |-> parseDirectoryListing(pure.doc, ListingURL)]
    /\ UNCHANGED <<manager, index, client, sync>>

SpecListing == ListingStart /\ [][ParseCall]_allvars

\* ---------------------------------------------------------------- ranking
\* The characters of the names, in the order of their bytes (the printable
\* ASCII characters but the backslash and the backquote).
Printable ==
    <<" ", "!", "\"", "#", "$", "%", "&", "'", "(", ")", "*", "+", ",", "-", ".", "/", "0", 
        "1", "2", "3", "4", "5", "6", "7", "8", "9", ":", ";", "<", "=", ">", "?", "@", 
        "A", "B", "C", "D", "E", "F", "G", "H", "I", "J", "K", "L", "M", "N", "O", "P", 
        "Q", "R", "S", "T", "U", "V", "W", "X", "Y", "Z", "[", "]", "^", "_", "a", "b", 
        "c", "d", "e", "f", "g", "h", "i", "j", "k", "l", "m", "n", "o", "p", "q", "r", 
        "s", "t", "u", "v", "w", "x", "y", "z", "{", "|", "}", "~">>

Code(c) == CHOOSE i \in DOMAIN Printable : Printable[i] = c

\* a < b for strings (Go compares them byte by byte).
RECURSIVE Less(_, _)
Less(a, b) ==
    IF b = << >> THEN FALSE
    ELSE IF a = << >> THEN TRUE
    ELSE IF Head(a) # Head(b) THEN Code(Head(a)) < Code(Head(b))
    ELSE Less(Tail(a), Tail(b))

\* The characters that tokenize replaces by a space (part_002 640-650).
Separators == {"(", ")", "[", "]", "-", "_", ",", ".", "/"}

StopWords == {<<"a">>, <<"a", "n">>, <<"t", "h", "e">>, <<"o", "f">>, <<"a", "n", "d">>, <<"f", "i", "l", "m">>, <<"g", "a", "m", "e">>}

\* tokenize (part_002 638-665).
tokenize(s) ==
    LET low == ToLower(s)
        replaced == [i \in DOMAIN low |-> IF low[i] \in Separators THEN Space ELSE low[i]]
    IN  SelectSeq(Fields(replaced), LAMBDA tok : ~(Len(tok) < 2 \/ tok \in StopWords))

\* hasLanguageTag (part_002 809-822).
hasLanguageTag(lowerName, lang) ==
    \/ Contains(lowerName, <<"(">> \o lang \o <<")">>)
    \/ Contains(lowerName, <<"(">> \o lang \o <<",">>)
    \/ Contains(lowerName, <<",">> \o lang \o <<",">>)
    \/ Contains(lowerName, <<",">> \o lang \o <<")">>)

AnyLanguages ==
    {<<"e", "n">>, <<"d", "e">>, <<"f", "r">>, <<"e", "s">>, <<"i", "t">>, <<"n", "l">>,
     <<"j", "a">>, <<"k", "o">>, <<"z", "h">>, <<"r", "u">>, <<"p", "t">>, <<"s", "v">>,
     <<"n", "o">>, <<"d", "a">>, <<"f", "i">>, <<"p", "l">>, <<"c", "s">>, <<"h", "u">>}

\* hasAnyLanguageTag (part_002 824-832).
hasAnyLanguageTag(lowerName) == \E lang \in AnyLanguages : hasLanguageTag(lowerName, lang)

\* A region bonus for every file, whatever its name.
RegionPointsAnyName(name, prefer) == IF prefer = << >> THEN 0 ELSE 30

\* The region bonus (part_002 714-729).
RegionPoints(name, prefer) ==
    IF prefer \in {<<"e", "u">>, <<"e", "u", "r", "o", "p", "e">>}
    THEN (IF Contains(name, <<"(", "e", "u", "r", "o", "p", "e">>) THEN 30 ELSE 0)
    ELSE IF prefer \in {<<"u", "s">>, <<"u", "s", "a">>, <<"n", "a">>}
    THEN (IF Contains(name, <<"(", "u", "s", "a">>) \/ Contains(name, <<"(", "u", "s", "a", ",">>) THEN 30 ELSE 0)
    ELSE IF prefer \in {<<"j", "p">>, <<"j", "a", "p", "a", "n">>}
    THEN (IF Contains(name, <<"(", "j", "a", "p", "a", "n">>) THEN 30 ELSE 0)
    ELSE 0

\* The language bonus or penalty (part_002 731-747).
LanguagePoints(name, preferLanguages) ==
    LET matching == {i \in DOMAIN preferLanguages : hasLanguageTag(name, preferLanguages[i])}
        bonus == 18 - ((Min(matching) - 1) * 4)
    IN  IF preferLanguages = << >> THEN 0
        ELSE IF matching # {} THEN (IF bonus < 4 THEN 4 ELSE bonus)
        ELSE IF hasAnyLanguageTag(name) THEN 0 - 4
        ELSE 0

\* The penalties for demos and for the Virtual Console (part_002 749-754).
MarkerPoints(name) ==
    (IF Contains(name, <<"(", "d", "e", "m", "o">>) \/ Contains(name, <<"(", "k", "i", "o", "s", "k">>) \/ Contains(name, <<"(", "b", "e", "t", "a">>)
     THEN 0 - 50 ELSE 0)
        + (IF Contains(name, <<"w", "i", "i", " ", "u", " ", "v", "i", "r", "t", "u", "a", "l", " ", "c", "o", "n", "s", "o", "l", "e">>)
           THEN 0 - 10 ELSE 0)

\* The hits that a query with two or more tokens needs.
RequiredHitsOne(tokens) == IF Len(tokens) >= 2 THEN 1 ELSE 1

\* requiredHits (part_002 707-710).
RequiredHits(tokens) == IF Len(tokens) >= 2 THEN 2 ELSE 1

\* The body of the loop of rankMatches for one entry (part_002 679-758):
\* whether the entry goes on to scoredEntries, and its score.
ScoreEntry(e, query, preferRegion, preferLanguages, exact) ==
    LET tokens == tokenize(query)
        prefer == ToLower(TrimSpace(preferRegion))
        queryLower == ToLower(TrimSpace(query))
        name == ToLower(e.Name)
        nameTokens == tokenize(name)
        nameTokenSet == {nameTokens[i] : i \in DOMAIN nameTokens}
        tokenHits == Cardinality({i \in DOMAIN tokens : tokens[i] \in nameTokenSet})
        phraseHit == queryLower # << >> /\ Contains(name, queryLower)
        score == tokenHits * 10
                   + (IF phraseHit THEN 20 ELSE 0)
                   + (IF Len(tokens) > 0 /\ tokenHits = Len(tokens) THEN 12 ELSE 0)
                   + RegionPoints(name, prefer)
                   + LanguagePoints(name, preferLanguages)
                   + MarkerPoints(name)
    IN  IF e.IsDir THEN [keep |-> FALSE, score |-> 0]
        ELSE IF exact /\ ~phraseHit THEN [keep |-> FALSE, score |-> score]
        ELSE IF ~phraseHit /\ tokenHits < RequiredHits(tokens) THEN [keep |-> FALSE, score |-> score]
        ELSE [keep |-> score > 0, score |-> score]

\* scoredEntries after the loop (part_002 678-759).
RECURSIVE ScoredEntries(_, _, _, _, _)
ScoredEntries(entries, query, preferRegion, preferLanguages, exact) ==
    IF entries = << >> THEN << >>
    ELSE LET s == ScoreEntry(Head(entries), query, preferRegion, preferLanguages, exact)
         IN  (IF s.keep THEN <<[entry |-> Head(entries), score |-> s.score]>> ELSE << >>)
                 \o ScoredEntries(Tail(entries), query, preferRegion, preferLanguages, exact)

\* The less function of the sort (part_002 761-766).
ScoredLess(x, y) ==
    IF x.score = y.score THEN Less(x.entry.Name, y.entry.Name) ELSE x.score > y.score

\* What sort.Slice can make of s: sort.Slice is not stable, so any order of s
\* in which no element is less than one before it.
Sorted(s) ==
    {[i \in DOMAIN s |-> s[p[i]]] :
        p \in {f \in [DOMAIN s -> DOMAIN s] :
                 /\ \A i, j \in DOMAIN s : i # j => f[i] # f[j]
                 /\ \A i, j \in DOMAIN s : i < j => ~ScoredLess(s[f[j]], s[f[i]])}}

\* An Entry of a listing.
File(name, url) == [Name |-> name, URL |-> url, IsDir |-> FALSE]
Dir(name, url) == [Name |-> name, URL |-> url, IsDir |-> TRUE]

\* The entries of the listings that are ranked: files, two of them with one
\* name, and a directory.
EntryPlain == File(<<"a", "b", " ", "c", "d", ".", "z", "i", "p">>, <<"u", "1">>)
EntryTwin == File(<<"a", "b", " ", "c", "d", ".", "z", "i", "p">>, <<"u", "2">>)
EntryDemo == File(<<"a", "b", " ", "(", "D", "e", "m", "o", ")", ".", "z", "i", "p">>, <<"u", "3">>)
EntryUSA == File(<<"c", "d", "-", "a", "b", " ", "(", "U", "S", "A", ")", ".", "z", "i", "p">>, <<"u", "4">>)
EntryEurope == File(<<"A", "b", " ", "C", "d", " ", "(", "E", "u", "r", "o", "p", "e", ")", " ", "(", "E", "n", ",", "F", "r", ")", ".", "z", "i", "p">>, <<"u", "5">>)
EntryOther == File(<<"x", "y", ".", "z", "i", "p">>, <<"u", "6">>)
EntryDir == Dir(<<"a", "b", " ", "c", "d">>, <<"u", "7">>)

RankEntries == {EntryPlain, EntryTwin, EntryDemo, EntryUSA,
                EntryEurope, EntryOther, EntryDir}

\* The queries: none, one token, two tokens in and out of the order of the
\* names, a token that no name has, and queries without a token.
RankQueries ==
    {<< >>,
     <<"a", "b">>,
     <<"a", "b", " ", "c", "d">>,
     <<"c", "d", " ", "a", "b">>,
     <<"a", "b", " ", "z", "z">>,
     <<"a">>,
     <<"b", " ", "c">>,
     <<"A", "B", " ", "C", "D", " ">>}

RankRegions == {<< >>, <<"e", "u">>, <<"U", "S", "A", " ">>, <<"j", "p">>}

RankLanguages == {<< >>, <<<<"e", "n">>>>, <<<<"d", "e">>, <<"f", "r">>>>}

\* The example: three files of one game, asked for with a preference for
\* Europe.
ChronoEurope ==
    File(<<"C", "h", "r", "o", "n", "o", " ", "T", "r", "i", "g", "g", "e", "r", " ", "(", 
           "E", "u", "r", "o", "p", "e", ")", " ", "(", "D", "e", ",", "E", "n", 
           ",", "F", "r", ")", ".", "z", "i", "p">>,
         <<"c", "1">>)
ChronoUSA ==
    File(<<"C", "h", "r", "o", "n", "o", " ", "T", "r", "i", "g", "g", "e", "r", " ", "(", 
           "U", "S", "A", ")", ".", "z", "i", "p">>,
         <<"c", "2">>)
ChronoDemo ==
    File(<<"C", "h", "r", "o", "n", "o", " ", "T", "r", "i", "g", "g", "e", "r", " ", "(", 
           "D", "e", "m", "o", ")", " ", "(", "E", "u", "r", "o", "p", "e", ")", 
           ".", "z", "i", "p">>,
         <<"c", "3">>)

ChronoQuery == <<"C", "h", "r", "o", "n", "o", " ", "T", "r", "i", "g", "g", "e", "r">>

ChronoInput ==
    [fn |-> "rankMatches", pc |-> "start",
     entries |-> <<ChronoEurope, ChronoUSA, ChronoDemo>>, query |-> ChronoQuery,
     preferRegion |-> <<"e", "u">>, preferLanguages |-> << >>, exact |-> FALSE]

\* The listings: up to MaxEntries entries, each once.
MaxEntries == 2

Listings ==
    {s \in UNION {[1..n -> RankEntries] : n \in 0..MaxEntries} :
        \A i, j \in DOMAIN s : i # j => s[i] # s[j]}

RankInputs ==
    {[fn |-> "rankMatches", pc |-> "start", entries |-> es, query |-> q, preferRegion |-> r,
      preferLanguages |-> ls, exact |-> x] :
        es \in Listings, q \in RankQueries, r \in RankRegions, ls \in RankLanguages,
        x \in BOOLEAN}

\* SpecRank: one call of rankMatches.
RankStart ==
    /\ NewManager(0, 0, 0) /\ NotifyInit(FALSE) /\ NoIndex /\ NoClient
    /\ pure \in RankInputs \cup {ChronoInput}
    /\ NoSync

\* rankMatches (part_002 667-773).
rankMatches ==
    /\ pure.fn = "rankMatches"
    /\ pure.pc = "start"
    /\ \E scoredEntries \in Sorted(ScoredEntries(pure.entries, pure.query, pure.preferRegion,
                                                  pure.preferLanguages, pure.exact)) :
         pure' = [pure EXCEPT !.pc = "done"]
                     @@ [scored |-> scoredEntries,
                         ret |-> [i \in DOMAIN scoredEntries |-> scoredEntries[i].entry]]
    /\ UNCHANGED <<manager, index, client, sync>>

SpecRank == RankStart /\ [][rankMatches]_allvars


\* ---------------------------------------------------------------- specification
\* The steps of the transfer tasks.
TaskStep(W) ==
    \/ \E t \in TaskIDs : Acquire(t)
    \/ \E t \in TaskIDs : Begin(t)
    \/ \E t \in TaskIDs : Stat(t, W)
    \/ \E t \in TaskIDs : Request(t, W)
    \/ \E t \in TaskIDs : Open(t, W)
    \/ \E t \in TaskIDs : Copy(t, W)
    \/ \E t \in TaskIDs : Rename(t, W)
    \/ \E t \in TaskIDs : Finish(t)

\* The calls of the manager's users, other than Enqueue.
CallStep ==
    \/ CancelAll
    \/ ClearFinished
    \/ \E id \in IDs : Cancel(id)
    \/ \E id \in IDs : Pause(id)
    \/ \E c \in CallIDs, id \in IDs : ResumeLookup(c, id)
    \/ \E c \in CallIDs : Resume(c)
    \/ \E c \in CallIDs, id \in IDs : RetryLookup(c, id)
    \/ \E c \in CallIDs : Retry(c)

\* Spec, SpecPause and SpecQueue: a manager without a callback, and a clock that
\* stands still.
Init == NewManager(Parallel, MaxTasks, MaxCalls) /\ NotifyInit(FALSE) /\ NoIndex /\ NoClient /\ NoPure
    /\ NoSync

Next ==
    \/ \E in \in Inputs : nextID < MaxItems /\ Enqueue(in[1], in[2], in[3])
    \/ CallStep
    \/ TaskStep(World)

Spec == Init /\ [][Next]_allvars

\* SpecPause: Spec without Cancel, CancelAll, Retry and ClearFinished.
PauseNext ==
    \/ \E in \in Inputs : nextID < MaxItems /\ Enqueue(in[1], in[2], in[3])
    \/ \E id \in IDs : Pause(id)
    \/ \E c \in CallIDs, id \in IDs : ResumeLookup(c, id)
    \/ \E c \in CallIDs : Resume(c)
    \/ TaskStep(World)

SpecPause == Init /\ [][PauseNext]_allvars

QueueInit == NewManager(QueueParallel, QueueTasks, 0) /\ NotifyInit(FALSE) /\ NoIndex /\ NoClient /\ NoPure
    /\ NoSync

\* SpecQueue leaves out Resume and Retry, which Spec has: every item has one task.
QueueNext ==
    \/ \E in \in QueueInputs : nextID < QueueItems /\ Enqueue(in[1], in[2], in[3])
    \/ CancelAll
    \/ ClearFinished
    \/ \E id \in IDs : Cancel(id)
    \/ \E id \in IDs : Pause(id)
    \/ TaskStep(QueueWorld)

SpecQueue == QueueInit /\ [][QueueNext]_allvars

\* Time passes.
Tick ==
    /\ now < MaxTime
    /\ now' = now + 1
    /\ fired' = FALSE
    /\ UNCHANGED <<vars, lastNotify, onChange, outside>>

\* SpecNotify: one item and one task, a registered callback and a running clock.
NotifyTasks == 1

NotifyWorld == [size |-> FileSize, storage |-> FALSE, network |-> TRUE, nolength |-> FALSE]

NotifyStart == NewManager(NotifyTasks, NotifyTasks, MaxCalls) /\ NotifyInit(TRUE) /\ NoIndex /\ NoClient /\ NoPure
    /\ NoSync

NotifyNext ==
    \/ \E in \in Inputs : nextID < MaxItems /\ Enqueue(in[1], in[2], in[3])
    \/ CallStep
    \/ TaskStep(NotifyWorld)
    \/ Tick

SpecNotify == NotifyStart /\ [][NotifyNext]_allvars

\* ---------------------------------------------------------------- specifications of the crawler
\* Listings and batch inserts can fail.
IndexWorld == [network |-> TRUE, storage |-> TRUE]

\* SpecIndex: the index command run on collection A up to MaxCrawls times, with
\* or without --force, while time passes (a tick is a day). The one goroutine
\* of a run uses one connection.
MaxCrawls == 3

IndexStart == NewManager(0, 0, 0) /\ NotifyInit(FALSE) /\ IndexInit(1, 0) /\ NoClient /\ NoPure
    /\ NoSync

IndexNext ==
    \/ \E force \in BOOLEAN, reopen \in BOOLEAN : StartCollection("A", force, reopen, MaxCrawls)
    \/ CrawlCollection(0)
    \/ DirStep(0, IndexWorld)
    \/ ReturnCollection
    \/ CancelCrawl
    \/ Tick

SpecIndex == IndexStart /\ [][IndexNext]_allvars

\* SpecCrawlAll: one CrawlAll of the whole site into a new database.
AllConns == 2

CrawlAllStart ==
    /\ NewManager(0, 0, 0) /\ NotifyInit(FALSE) /\ NoClient /\ NoPure
    /\ IndexInit(AllConns, Len(DirNames(Listing(Root))))
    /\ NoSync

CrawlAllNext ==
    \/ StartAll(FALSE, TRUE, 1)
    \/ ListRoot(IndexWorld)
    \/ \E w \in ThreadIDs : Send(w)
    \/ SendCancelled
    \/ Close
    \/ \E w \in ThreadIDs : Exit(w)
    \/ \E w \in ThreadIDs : CrawlCollection(w)
    \/ \E w \in ThreadIDs : DirStep(w, IndexWorld)
    \/ \E w \in ThreadIDs : Returned(w)
    \/ Wait
    \/ CancelCrawl

SpecCrawlAll == CrawlAllStart /\ [][CrawlAllNext]_allvars


\* SpecWorkers: one CrawlAll with --workers from 0 to MaxWorkers: with one
\* worker a collection waits in the queue while another is crawled.
MaxWorkers == 2

WorkersNext ==
    \/ \E n \in 0..MaxWorkers : StartAllWorkers(n, 1)
    \/ ListRoot(IndexWorld)
    \/ \E w \in ThreadIDs : Send(w)
    \/ SendCancelled
    \/ Close
    \/ \E w \in ThreadIDs : Exit(w)
    \/ \E w \in ThreadIDs : CrawlCollection(w)
    \/ \E w \in ThreadIDs : DirStep(w, IndexWorld)
    \/ \E w \in ThreadIDs : Returned(w)
    \/ Wait
    \/ CancelCrawl

SpecWorkers == CrawlAllStart /\ [][WorkersNext]_allvars

\* SpecOverlap: the TUI with its database: a crawler that crawls collection B
\* (goroutine 0) while the browser indexes the listings the user opens
\* (goroutine 1), both on the pool's connections. The user opens listings
\* until the files table has handed out MaxRows ids.
MaxRows == 3

\* The listings the user opens: the root, the collection that is crawled and
\* a directory of the other collection.
Opened == {Root, <<"B">>, <<"A", "y">>}

OverlapStart ==
    /\ NewManager(0, 0, 0) /\ NotifyInit(FALSE) /\ NoClient /\ NoPure
    /\ IndexInit(AllConns, 1)
    /\ NoSync

OverlapNext ==
    \/ \E force \in BOOLEAN : StartCollection("B", force, FALSE, 1)
    \/ CrawlCollection(0)
    \/ DirStep(0, IndexWorld)
    \/ ReturnCollection
    \/ \E dir \in Opened : db.seq.files < MaxRows /\ BrowseIndex(1, dir)
    \/ BrowseUpsert(1)
    \/ BrowseClear(1)
    \/ BrowseInsert(1, IndexWorld)
    \/ BrowseMark(1)

SpecOverlap == OverlapStart /\ [][OverlapNext]_allvars

\* The steps of worker w of CrawlAll (part_003 114-125) and of the crawlDir
\* calls below it.
WorkerRuns(w) ==
    \/ Exit(w)
    \/ CrawlCollection(w)
    \/ DirStep(w, IndexWorld)
    \/ Returned(w)

\* The steps of the goroutine that called CrawlAll (part_003 90-144).
Produces ==
    \/ ListRoot(IndexWorld)
    \/ \E w \in ThreadIDs : Send(w)
    \/ SendCancelled
    \/ Close
    \/ Wait

\* SpecTerminates: SpecWorkers on a pool of one connection, with the
\* scheduler's fairness: a goroutine that can run does run, and every listing
\* request and store call returns.
TerminatesStart ==
    /\ NewManager(0, 0, 0) /\ NotifyInit(FALSE) /\ NoClient /\ NoPure
    /\ IndexInit(1, Len(DirNames(Listing(Root))))
    /\ NoSync

SpecTerminates ==
    /\ TerminatesStart
    /\ [][WorkersNext]_allvars
    /\ WF_allvars(Produces)
    /\ \A w \in 1..Len(DirNames(Listing(Root))) : WF_allvars(WorkerRuns(w))

\* SpecProgress: one CrawlAll whose workers build and store their progress
\* snapshots in steps of their own, between the steps of the other workers.
ProgressNext ==
    \/ StartAll(FALSE, TRUE, 1)
    \/ ListRoot(IndexWorld)
    \/ \E w \in ThreadIDs : Send(w)
    \/ SendCancelled
    \/ Close
    \/ \E w \in ThreadIDs : Exit(w)
    \/ \E w \in ThreadIDs : CrawlCollection(w)
    \/ \E w \in ThreadIDs : Snapshot(w)
    \/ \E w \in ThreadIDs : Publish(w)
    \/ \E w \in ThreadIDs : List(w, IndexWorld)
    \/ \E w \in ThreadIDs : Upsert(w)
    \/ \E w \in ThreadIDs : Clear(w)
    \/ \E w \in ThreadIDs : Insert(w, IndexWorld)
    \/ \E w \in ThreadIDs : Mark(w)
    \/ \E w \in ThreadIDs : Recurse(w)
    \/ \E w \in ThreadIDs : Returned(w)
    \/ Wait
    \/ CancelCrawl

SpecProgress == CrawlAllStart /\ [][ProgressNext]_allvars

\* SpecLocks: LockCallers goroutines of the user interface call the manager's
\* operations on one item and draw it, next to the goroutines these calls
\* start; LockParallel downloads run at a time.
LockCallers == 2
LockParallel == 1

LockStart ==
    /\ NewManager(0, 0, 0) /\ NotifyInit(FALSE) /\ NoIndex /\ NoClient /\ NoPure
    /\ LockInit(LockCallers)

LockNext ==
    \/ \E g \in DOMAIN goroutines : Invoke(g, LockCallers)
    \/ \E g \in DOMAIN goroutines : Lock(g)
    \/ \E g \in DOMAIN goroutines : Unlock(g)
    \/ \E g \in DOMAIN goroutines : Slot(g, LockParallel)
    \/ \E g \in DOMAIN goroutines : Access(g)
    \/ \E g \in DOMAIN goroutines : Callback(g)
    \/ \E g \in DOMAIN goroutines : CallbackReturns(g)
    \/ \E g \in DOMAIN goroutines : GoStatement(g, LockCallers)

SpecLocks == LockStart /\ [][LockNext]_allvars

\* The steps of the goroutine of task t (go m.processItem, downloader.go 164, 333, 366).
TaskRuns(t) ==
    \/ Acquire(t)
    \/ Begin(t)
    \/ Stat(t, World)
    \/ Request(t, World)
    \/ Open(t, World)
    \/ Copy(t, World)
    \/ Rename(t, World)
    \/ Finish(t)

\* SpecLive: SpecPause with the scheduler's fairness: a goroutine that can run
\* does run, and one that waits for a slot gets it when slots keep coming free.
SpecLive ==
    /\ Init
    /\ [][PauseNext]_allvars
    /\ \A t \in 1..MaxTasks : WF_allvars(TaskRuns(t)) /\ SF_allvars(Acquire(t))
\* ---------------------------------------------------------------- properties
NonFailed == {StatusQueued, StatusActive, StatusPaused, StatusCompleted}

\* Some tracked item with this URL or this destination is not Failed.
HasDuplicate(fileURL, destPath) ==
    \E k \in 1..Len(items) :
        /\ item[items[k]].URL = fileURL \/ item[items[k]].DestPath = destPath
        /\ item[items[k]].Status \in NonFailed

\* The step starts exactly one task, for item id, and touches no other task.
StartsOneTask(id) ==
    \E t \in TaskIDs :
        /\ tasks[t].pc = "idle"
        /\ tasks'[t] = [IdleTask EXCEPT !.item = id, !.pc = "acquire"]
        /\ \A u \in TaskIDs \ {t} : tasks'[u] = tasks[u]

\* C1, the return value: for every name, URL and subdirectory, Enqueue answers
\* created=false exactly when some tracked item with the same URL or the same
\* destination is not Failed, and the item it then returns is such an item.
EnqueueAnswers ==
    \A in \in QueueInputs :
        LET r == EnqueueResult(in[1], in[2], in[3])
            dp == DestPathOf(in[1], in[3])
        IN  /\ r.created <=> ~HasDuplicate(in[2], dp)
            /\ ~r.created =>
                 /\ Tracked(r.item)
                 /\ item[r.item].URL = in[2] \/ item[r.item].DestPath = dp
                 /\ item[r.item].Status \in NonFailed

\* C1, the effect: a step that creates an item is an Enqueue of arguments that no
\* tracked non-Failed item duplicates; it appends exactly one item, Queued, with
\* an ID no item had before, leaves the other items as they are and starts
\* exactly one task, for the new item. No other step changes the list except by
\* removing items from it, and an Enqueue that answers created=false changes
\* nothing.
EnqueueCreates ==
    /\ nextID' # nextID =>
         /\ nextID' = nextID + 1
         /\ nextID' \notin DOMAIN item
         /\ items' = Append(items, nextID')
         /\ \A i \in DOMAIN item : item'[i] = item[i]
         /\ \E in \in QueueInputs :
              /\ ~HasDuplicate(in[2], DestPathOf(in[1], in[3]))
              /\ item'[nextID'] = NewItem(nextID', in[2], DestPathOf(in[1], in[3]))
         /\ item'[nextID'].Status = StatusQueued
         /\ StartsOneTask(nextID')
    /\ nextID' = nextID => DOMAIN item' = DOMAIN item /\ Len(items') <= Len(items)
    /\ \A in \in QueueInputs :
         (~EnqueueResult(in[1], in[2], in[3]).created /\ Enqueue(in[1], in[2], in[3]))
            => UNCHANGED vars

\* C1: Enqueue returns an existing item with created=false (no item changed, no
\* task started) exactly when a tracked non-Failed item has the same URL or the
\* same destination; otherwise it appends one new Queued item with a fresh ID,
\* returns created=true and starts exactly one task for it.
C1_Enqueue == [](EnqueueAnswers) /\ [][EnqueueCreates]_vars

\* A second download of a URL and destination whose first download is Failed
\* and still tracked.
C1_Witness ==
    /\ Len(items) = 2
    /\ item[items[1]].Status = StatusFailed
    /\ item[items[2]].URL = item[items[1]].URL
    /\ item[items[2]].DestPath = item[items[1]].DestPath
    /\ item[items[2]].Status \in NonFailed

\* The tasks that hold a slot: past the send to m.sem, before the deferred receive.
Holding == {t \in TaskIDs : tasks[t].pc \notin {"idle", "acquire"}}

ActiveItems == {i \in DOMAIN item : item[i].Status = StatusActive}

\* C4, the bound.
SlotsBounded ==
    /\ Cardinality(ActiveItems) <= maxParallel
    /\ Cardinality(Holding) <= maxParallel
    /\ sem = Cardinality(Holding)

\* C4, the waiting: while the pool is full a task that waits for a slot stays
\* where it is, and an item becomes Active only in the step of a task that
\* holds a slot.
WaitsWhenFull ==
    /\ \A t \in TaskIDs :
         tasks[t].pc = "acquire" /\ Cardinality(Holding) >= maxParallel
            => tasks'[t] = tasks[t]
    /\ \A i \in DOMAIN item :
         item[i].Status # StatusActive /\ item'[i].Status = StatusActive
            => \E t \in Holding : tasks[t].item = i /\ tasks[t].pc = "begin"
                                  /\ tasks'[t].pc = "stat"

\* C4: at every moment the number of Active items and the number of tasks that
\* hold a slot are both at most maxParallel; a task that cannot get a slot
\* leaves its item Queued.
C4_Slots == [](SlotsBounded) /\ [][WaitsWhenFull]_vars

\* The pool is full, and a task waits for a slot while its item is Queued.
C4_Witness ==
    /\ Cardinality(Holding) = maxParallel
    /\ ActiveItems # {}
    /\ \E t \in TaskIDs : tasks[t].pc = "acquire" /\ item[tasks[t].item].Status = StatusQueued

\* C5: no two tracked items that are both not Failed share a URL or a
\* destination. (SpecQueue has no Retry, the exception the claim makes.)
C5_Unique ==
    \A j, k \in 1..Len(items) :
        (j # k /\ item[items[j]].Status \in NonFailed /\ item[items[k]].Status \in NonFailed)
            => /\ item[items[j]].URL # item[items[k]].URL
               /\ item[items[j]].DestPath # item[items[k]].DestPath

\* The status of item i changes from a to b in the step.
Changes(i, a, b) == item[i].Status = a /\ item'[i].Status = b

RetryStep(c, i) ==
    calls[c].op = "Retry" /\ calls[c].target = i /\ calls'[c].op = "none"

\* C3: a Completed item never changes Status again, and a Failed item changes
\* Status only in the step of a Retry on it.
C3_Terminal ==
    [][\A i \in DOMAIN item :
         /\ item[i].Status = StatusCompleted => item'[i].Status = StatusCompleted
         /\ item[i].Status = StatusFailed /\ item'[i].Status # StatusFailed
               => \E c \in CallIDs : RetryStep(c, i)]_vars

\* C6: the DoneBytes of an item never decreases.
C6_Monotone ==
    [][\A i \in DOMAIN item : item'[i].DoneBytes >= item[i].DoneBytes]_vars

\* C6 as the code has it: DoneBytes decreases only at the start of a transfer
\* attempt of the item - where it is set to the length of the .part file found,
\* or to 0 when the response does not resume - and never in a chunk write, a
\* pause, a resume, a retry or the end of a transfer.
C6_DecreasesAtStart ==
    [][\A i \in DOMAIN item :
         item'[i].DoneBytes < item[i].DoneBytes =>
            \E t \in TaskIDs :
               /\ tasks[t].item = i
               /\ \/ /\ tasks[t].pc = "stat" /\ tasks'[t].pc = "request"
                     /\ Exists(PartPath(item[i].DestPath))
                     /\ item'[i].DoneBytes = fs[PartPath(item[i].DestPath)]
                  \/ /\ tasks[t].pc = "open" /\ ~tasks[t].resumed
                     /\ item'[i].DoneBytes = 0]_vars

\* A transfer found a .part file, asked for its rest, was answered with the
\* whole file and is about to truncate: DoneBytes is positive and becomes 0.
C6_Witness ==
    \E t \in TaskIDs :
        /\ tasks[t].pc = "open" /\ ~tasks[t].resumed
        /\ Exists(PartPath(item[tasks[t].item].DestPath))
        /\ fs[PartPath(item[tasks[t].item].DestPath)] > 0
        /\ item[tasks[t].item].DoneBytes > 0

\* C7: a Paused item has no Error, and - Cancel and CancelAll never being
\* called in SpecPause - no item is Failed with the cancellation cause: a
\* transfer stopped by Pause, also when Resume follows, does not mark it Failed.
C7_PauseNeverFails ==
    \A i \in DOMAIN item :
        /\ item[i].Status = StatusPaused => item[i].Error = NoError
        /\ ~(item[i].Status = StatusFailed /\ item[i].Error = errCancelled)

ResumeRequest ==
    \A L \in 1..World.size :
        /\ RangeHeader(L) = <<L>>
        /\ \A r \in Responses(RangeHeader(L), World) :
              r.err = NoError /\ r.resumed /\ r.contentLength > 0
                 => TotalAfter(0, r, L) = L + r.contentLength

\* C9, the transfer of task t: the length L of the .part file it finds is its
\* resume offset and the item's DoneBytes; after a 206 it opens the file with
\* its L chunks, every chunk it writes makes the file one chunk longer, and
\* when the body ends the file has L chunks plus those received; after a 200
\* it opens the file empty with DoneBytes 0, and when the body ends the file is
\* the whole remote file.
ResumeTransfer(t) ==
    LET i == tasks[t].item
        partPath == PartPath(item[i].DestPath)
        L == tasks[t].resumeFrom
    IN  /\ (tasks[t].pc = "stat" /\ tasks'[t].pc = "request" /\ Exists(partPath))
              => /\ tasks'[t].resumeFrom = fs[partPath]
                 /\ item'[i].DoneBytes = fs[partPath]
        /\ (tasks[t].pc = "request" /\ tasks'[t].pc = "open" /\ tasks'[t].resumed)
              => L > 0 /\ tasks'[t].resumeFrom = L
        /\ (tasks[t].pc = "open" /\ tasks'[t].pc = "copy")
              => IF tasks[t].resumed
                 THEN fs'[partPath] = L /\ item'[i].DoneBytes = L
                 ELSE fs'[partPath] = 0 /\ item'[i].DoneBytes = 0
                      /\ tasks'[t].body = World.size
        /\ (tasks[t].pc = "copy" /\ tasks'[t] # tasks[t] /\ tasks[t].resumed
               /\ item'[i].DoneBytes = item[i].DoneBytes + 1)
              => Exists(partPath) /\ fs'[partPath] = fs[partPath] + 1
        /\ (tasks[t].pc = "copy" /\ tasks'[t].pc = "rename")
              => /\ partPath \in DOMAIN fs'
                 /\ fs'[partPath] = IF tasks[t].resumed
                                    THEN L + (World.size - L) ELSE World.size

\* C9: a transfer that finds a .part file of length L > 0 sends Range: bytes=L-;
\* answered 206 it appends (TotalBytes = L + content length, DoneBytes starts
\* at L) and the final file has L plus the received bytes; answered 200 it
\* truncates the .part file and restarts from byte 0.
C9_Resume == [](ResumeRequest) /\ [][\A t \in TaskIDs : ResumeTransfer(t)]_vars

\* Task t renames its item's .part file to the destination dp in the step.
RenamesTo(t, dp) ==
    /\ tasks[t].pc = "rename" /\ tasks'[t].pc = "finish" /\ tasks'[t].err = NoError
    /\ item[tasks[t].item].DestPath = dp

\* C10: an item becomes Completed only in the final step of a task that wrote
\* the whole body and renamed the .part file, the destination then existing;
\* and only such a rename creates or modifies a destination or takes its .part
\* file away, so that a transfer that ends in any other way leaves both alone.
C10_Rename ==
    [][/\ \A i \in DOMAIN item :
            item[i].Status # StatusCompleted /\ item'[i].Status = StatusCompleted
               => /\ \E t \in TaskIDs : tasks[t].item = i /\ tasks[t].pc = "finish"
                                        /\ tasks[t].err = NoError
                  /\ Exists(item[i].DestPath)
       /\ \A i \in DOMAIN item :
            LET dp == item[i].DestPath
            IN  /\ (dp \in DOMAIN fs' /\ (dp \notin DOMAIN fs \/ fs'[dp] # fs[dp]))
                      => \E t \in TaskIDs : RenamesTo(t, dp)
                /\ (PartPath(dp) \in DOMAIN fs /\ PartPath(dp) \notin DOMAIN fs')
                      => \E t \in TaskIDs : RenamesTo(t, dp)]_vars

\* The tracked items that are Queued, Active or Paused, in the order of the list.
Unfinished ==
    SelectSeq(items, LAMBDA id : item[id].Status \in {StatusQueued, StatusActive, StatusPaused})

\* C11: a step that takes an item off the list changes nothing but the list and
\* leaves on it exactly the Queued, Active and Paused items, in their order; a
\* ClearFinished is such a step or changes nothing, and the number it returns is
\* the number of tracked items that are Completed or Failed; every other change
\* of the list appends one item.
C11_ClearFinished ==
    [][/\ (\E k \in 1..Len(items) : ~\E j \in 1..Len(items') : items'[j] = items[k])
            => /\ items' = Unfinished
               /\ UNCHANGED <<item, nextID, sem, tasks, calls, fs>>
       /\ ClearFinished
            => /\ items' = Unfinished
               /\ ClearFinishedResult = Len(items) - Len(items')
               /\ ClearFinishedResult =
                     Cardinality({k \in 1..Len(items) :
                                     item[items[k]].Status \in {StatusCompleted, StatusFailed}})
               /\ UNCHANGED <<item, nextID, sem, tasks, calls, fs>>
       /\ items' # items
            => \/ items' = Unfinished
               \/ items' = Append(items, nextID')]_vars

\* The first of two downloads was finished and cleared; the second, not
\* finished, is all that is left on the list.
C11_Witness ==
    /\ nextID = 2
    /\ items = <<2>>
    /\ item[1].Status \in {StatusCompleted, StatusFailed}
    /\ item[2].Status \in {StatusQueued, StatusActive, StatusPaused}

\* An item's status differs after the step, or the list of items does.
StatusOrListChange ==
    \/ items' # items
    \/ \E i \in DOMAIN item : item'[i].Status # item[i].Status

\* A task in the copy loop wrote a chunk and counted it in DoneBytes
\* (downloader.go 471-477).
ChunkCopied ==
    \E t \in DOMAIN tasks :
        /\ tasks[t].pc = "copy"
        /\ tasks[t].body > 0
        /\ tasks'[t] # tasks[t]
        /\ item'[tasks[t].item].DoneBytes = item[tasks[t].item].DoneBytes + 1

\* C12: a step that changes an item's status or the list of items invokes the
\* callback, whatever the time of the last notification; a step that only
\* counts a copied chunk invokes it if and only if the last notification is at
\* least the minimum interval ago, and a dropped one leaves lastNotify alone.
C12_Notify ==
    [][/\ StatusOrListChange => fired' /\ lastNotify' = now
       /\ (~StatusOrListChange /\ ChunkCopied)
            => IF now - lastNotify < MinInterval
               THEN ~fired' /\ lastNotify' = lastNotify
               ELSE fired' /\ lastNotify' = now]_allvars

\* A status changed less than the minimum interval after a notification.
C12_Witness ==
    /\ fired
    /\ lastNotify = now
    /\ now = 1
    /\ \E i \in DOMAIN item : item[i].Status = StatusPaused

\* ---------------------------------------------------------------- properties of the crawler
\* The directory of a file's path.
DirOf(path) == SubSeq(path, 1, Len(path) - 1)

\* The paths of the files in the listing of a directory.
ListedFiles(dir) == {Append(dir, n) : n \in SeqToSet(FileNames(Listing(dir)))}

\* The FileRecords of the directory row of this path.
RecordsOf(D, dir) == {f \in D.files : f.directory_id = D.directories[dir].id}

\* C13: the FileRecords of a directory that was marked as crawled are at all
\* times the files of its listing, which is its previous snapshot and its new one.
C13_Atomic ==
    \A dir \in DOMAIN db.directories :
        db.directories[dir].last_crawled # NullTime
            => {f.path : f \in RecordsOf(db, dir)} = ListedFiles(dir)

\* C14: when crawlDir starts on a directory without force, and the directory's
\* last complete crawl is no longer ago than the freshness window, it returns
\* nil with one more directory processed, the store as it was and no listing;
\* with force it goes on to the listing.
C14_Fresh ==
    [][\A w \in ThreadIDs :
         (At(w, "enter") /\ threads'[w] # threads[w] /\ ~ctxDone)
            => LET dir == Top(w).path
               IN  /\ (/\ ~crawler.force
                       /\ history.crawledAt[dir] # NullTime
                       /\ now - history.crawledAt[dir] <= staleDays)
                          => /\ threads' = ReturnDir(threads, w, NoError)
                             /\ crawler'.dirsProc = crawler.dirsProc + 1
                             /\ db' = db
                   /\ crawler.force
                          => threads' = SetTop(threads, w, [Top(w) EXCEPT !.pc = "list"])]_allvars

\* The directory that contains this directory, Root for a collection.
Parent(dir) == SubSeq(dir, 1, Len(dir) - 1)

\* A step in which a call of CrawlCollection or crawlDir hands an error to its
\* caller while the context is not cancelled: the worker's handling of a failed
\* collection, or the loop's handling of a failed subdirectory.
HandlesFailure(w) ==
    /\ ~ctxDone
    /\ threads'[w] # threads[w]
    /\ \/ threads[w].pc = "returned" /\ threads[w].err # NoError
       \/ At(w, "recurse") /\ Top(w).got # NoError

\* C15: CrawlAll returns the root listing's error only when that listing failed
\* and the cancellation error only when the context is cancelled, and nothing
\* else but nil; a worker or a crawlDir that gets an error from a collection or
\* a subdirectory while the context is not cancelled adds one to Errors and goes
\* on, the worker to the next collection, crawlDir with the remaining
\* subdirectories; and when CrawlAll returns nil every collection was upserted
\* and crawlDir was called for every subdirectory of every directory that was
\* crawled to the end, also next to failed ones.
C15_Errors ==
    /\ [](crawl.op = "CrawlAll"
            => /\ crawl.ret \in {Running, NoError, ErrListingRoot, ctxCanceled}
               /\ crawl.ret = ctxCanceled => ctxDone
               /\ crawl.ret = ErrListingRoot => db = EmptyDB /\ history.called = {}
               /\ crawl.ret = NoError
                    => /\ \A name \in SeqToSet(DirNames(Listing(Root))) :
                            name \in DOMAIN db.collections /\ <<name>> \in history.called
                       /\ \A dir \in Dirs :
                            (Parent(dir) # Root /\ history.crawledAt[Parent(dir)] # NullTime)
                                => dir \in history.called)
    /\ [][\A w \in ThreadIDs :
            HandlesFailure(w)
                => /\ crawler'.errCount = crawler.errCount + 1
                   /\ crawl' = crawl
                   /\ IF threads[w].pc = "returned"
                      THEN threads'[w].pc = "recv"
                      ELSE threads' = SetTop(threads, w, [Top(w) EXCEPT !.got = NoError])]_allvars

\* CrawlAll has returned nil although the listing of A/x/ and the batch insert
\* of B/ failed: A/y/ was crawled, and the failures are counted.
C15_Witness ==
    /\ crawl.op = "CrawlAll"
    /\ crawl.ret = NoError
    /\ ~ctxDone
    /\ history.failed = {<<"A", "x">>, <<"B">>}
    /\ history.crawledAt[<<"A", "y">>] # NullTime
    /\ crawler.errCount >= 2

\* C16: once the context is cancelled, no listing arrives any more (of the root
\* or of a directory), no collection leaves the queue for a worker, and a call
\* that returns, returns the cancellation error, alone or wrapped in the root
\* listing's.
C16_Cancel ==
    /\ [][ctxDone
            => /\ \A w \in ThreadIDs :
                    At(w, "list") /\ threads'[w] # threads[w]
                        => threads' = ReturnDir(threads, w, ctxCanceled)
               /\ crawl.pc = "root" /\ crawl' # crawl => crawl'.ret = ErrListingRoot
               /\ crawl'.rest = crawl.rest
               /\ \A w \in ThreadIDs :
                    threads[w].pc = "recv" => threads'[w].pc \in {"recv", "done"}]_allvars
    /\ [](ctxDone /\ crawl.ret # Running => crawl.ret \in {ctxCanceled, ErrListingRoot})

\* C17: after CrawlAll or CrawlCollection has returned, Progress() reports the
\* crawl's numbers of processed directories, found files and errors.
C17_Progress ==
    (crawl.op # "none" /\ crawl.ret # Running)
        => /\ crawler.progress.DirsProcessed = crawler.dirsProc
           /\ crawler.progress.FilesFound = crawler.filesFound
           /\ crawler.progress.Errors = crawler.errCount

TopOf(th, w) == th[w].stack[Len(th[w].stack)]

\* C19: the id that UpsertCollection and UpsertDirectory return is the id of the
\* row with that name or path, and no step changes the id of a row.
C19_StableID ==
    [][/\ \A w \in ThreadIDs :
            /\ (At(w, "upsert") /\ threads'[w] # threads[w])
                   => TopOf(threads', w).dirID = db'.directories[Top(w).path].id
            /\ (threads[w].pc = "crawl" /\ threads'[w] # threads[w])
                   => TopOf(threads', w).colID = db'.collections[threads[w].collection]
       /\ \A dir \in DOMAIN db.directories : db'.directories[dir].id = db.directories[dir].id
       /\ \A name \in DOMAIN db.collections : db'.collections[name] = db.collections[name]]_allvars

\* The FileRecords whose path lies in this directory.
RecordsIn(D, dir) == {f \in D.files : DirOf(f.path) = dir}

\* C18: when a forced crawl of a directory that was crawled to the end before
\* has replaced the directory's records, the directory has one FileRecord for
\* each file of its listing and no other, as before.
C18_Recrawl ==
    [][\A w \in ThreadIDs :
         (/\ At(w, "mark")
          /\ threads'[w] # threads[w]
          /\ crawler.force
          /\ history.crawledAt[Top(w).path] # NullTime)
            => LET dir == Top(w).path
               IN  /\ {f.path : f \in RecordsIn(db', dir)} = ListedFiles(dir)
                   /\ Cardinality(RecordsIn(db', dir)) = Cardinality(ListedFiles(dir))
                   /\ RecordsOf(db', dir) = RecordsIn(db', dir)]_allvars

\* ---------------------------------------------------------------- properties of the client
\* C20: a request goes out only from a caller that holds a token, which it got
\* by taking one from a bucket that had one, while its context was not
\* cancelled; and a caller whose wait fails returns an error and has sent
\* nothing.
C20_Limiter ==
    /\ [](\A c \in CallerIDs : callers[c].sent \/ callers[c].pc = "do" => callers[c].token)
    /\ [](limiter \in 0..Burst)
    /\ [][\A c \in CallerIDs :
            /\ (callers'[c].token /\ ~callers[c].token)
                   => limiter > 0 /\ limiter' = limiter - 1 /\ ~callers[c].ctxDone
            /\ (callers[c].pc = "wait" /\ callers'[c].pc = "done")
                   => /\ callers[c].ctxDone
                      /\ callers'[c].err = ctxCanceled
                      /\ ~callers'[c].sent
                      /\ limiter' = limiter]_allvars

\* The bucket is empty, one caller waits for a token, and the download of
\* another caller, which took a token, has gone out.
C20_Witness ==
    /\ limiter = 0
    /\ \E c \in CallerIDs : callers[c].pc = "wait" /\ ~callers[c].ctxDone
    /\ \E c \in CallerIDs :
         callers[c].method = "DownloadFile" /\ callers[c].sent /\ callers[c].token

\* The status is not the one the method takes for a success.
NotSuccess(c) ==
    IF callers[c].method = "DownloadFile"
    THEN callers[c].status \notin {StatusOK, StatusPartialContent}
    ELSE callers[c].status # StatusOK

\* The response is an HTML page and the URL asked for is not one.
HTMLForFile(c) ==
    /\ callers[c].ctype \in {<<"t", "e", "x", "t", "/", "h", "t", "m", "l">>,
                             <<"T", "e", "x", "t", "/", "H", "T", "M", "L", ";", "u", "t", "f", "8">>}
    /\ callers[c].url \in {<<"f", ".", "z", "i", "p">>, <<"h", "t", "m", "l">>}

\* C21: a method that has returned after a response with a non-success status
\* has returned an error, and so has a DownloadFile whose response was HTML for
\* a URL that does not end in .html or .htm; a method that returned an error
\* returned no body.
C21_Refuses ==
    \A c \in CallerIDs :
        callers[c].pc = "done" /\ callers[c].status # 0
            => /\ NotSuccess(c) => callers[c].err = ErrStatus
               /\ (callers[c].method = "DownloadFile" /\ HTMLForFile(c))
                      => callers[c].err \in {ErrStatus, ErrHTML}
               /\ callers[c].err # NoError => ~callers[c].body

\* A download of a .zip URL was answered 200 with an HTML page and has returned
\* the error, while a download of a .HTM URL got its HTML body.
C21_Witness ==
    /\ \E c \in CallerIDs :
         /\ callers[c].pc = "done" /\ callers[c].status = StatusOK
         /\ callers[c].url = <<"f", ".", "z", "i", "p">>
         /\ callers[c].err = ErrHTML /\ ~callers[c].body
    /\ \E c \in CallerIDs :
         /\ callers[c].pc = "done" /\ callers[c].url = <<"P", ".", "H", "T", "M">>
         /\ callers[c].ctype = <<"t", "e", "x", "t", "/", "h", "t", "m", "l">>
         /\ callers[c].body

\* ---------------------------------------------------------------- properties of Search
\* The white-space separated tokens of a raw query, as the intervals of its
\* positions: maximal runs without a space.
TokenRuns(q) ==
    {r \in (1..Len(q)) \X (1..Len(q)) :
        /\ r[1] <= r[2]
        /\ \A k \in r[1]..r[2] : q[k] # Space
        /\ r[1] = 1 \/ q[r[1] - 1] = Space
        /\ r[2] = Len(q) \/ q[r[2] + 1] = Space}

\* A token without the characters ( ) [ ] { } ^.
Literal(q, r) ==
    SelectSeq(SubSeq(q, r[1], r[2]), LAMBDA c : c \notin {"(", ")", "[", "]", "{", "}", "^"})

\* The tokens that are left after that, from left to right.
RECURSIVE LiteralsOf(_, _)
LiteralsOf(q, runs) ==
    IF runs = {} THEN << >>
    ELSE LET r == CHOOSE x \in runs : \A y \in runs : x[1] <= y[1]
         IN  (IF Literal(q, r) = << >> THEN << >> ELSE <<Literal(q, r)>>)
                 \o LiteralsOf(q, runs \ {r})

\* The length of the list of the quoted tokens: each with its two quotes and
\* one more character for each quote in it, and a space between two.
RECURSIVE QuotedLen(_)
QuotedLen(tokens) ==
    IF tokens = << >> THEN 0
    ELSE Len(Head(tokens)) + Len(SelectSeq(Head(tokens), LAMBDA c : c = Quote)) + 2
         + (IF Len(tokens) > 1 THEN 1 ELSE 0) + QuotedLen(Tail(tokens))

\* C22: what Search hands to MATCH is empty, and Search then returns no rows
\* and no error, or it reads as a list of quoted strings whose texts are the
\* tokens of the raw query without ( ) [ ] { } ^, the empty ones left out, in
\* their order, separated by one space; the engine takes it without an error
\* and every row it returns holds each of these tokens.
C22_Sanitized ==
    (pure.fn = "Search" /\ pure.pc = "done") =>
        LET literals == LiteralsOf(pure.query, TokenRuns(pure.query))
            parsed == FTS5Phrases(pure.ret.match)
        IN  /\ pure.ret.err = NoError
            /\ (pure.ret.match = << >>) <=> (literals = << >>)
            /\ pure.ret.match = << >> => pure.ret.rows = {}
            /\ parsed.ok
            /\ parsed.phrases = literals
            /\ Len(pure.ret.match) = QuotedLen(literals)
            /\ pure.ret.match # << >>
                   => Head(pure.ret.match) = Quote /\ pure.ret.match[Len(pure.ret.match)] = Quote
            /\ \A f \in pure.ret.rows : \A i \in DOMAIN literals :
                   PhraseIn(literals[i], f.name) \/ PhraseIn(literals[i], f.path)

\* The query a (b was handed on as "a" "b" and found the files with both
\* tokens in their name or path, and not the files ab and ba.
C22_Witness ==
    /\ pure.fn = "Search" /\ pure.pc = "done"
    /\ pure.query = <<"a", " ", "(", "b">>
    /\ pure.ret.match = <<Quote, "a", Quote, " ", Quote, "b", Quote>>
    /\ pure.ret.rows = {[name |-> <<"a">>, path |-> <<"b", "/", "a">>],
                        [name |-> <<"a", " ", "(", "b", ")">>,
                         path |-> <<"c", "/", "a", " ", "(", "b", ")">>]}

\* ---------------------------------------------------------------- properties of parseDirectoryListing
ListingDone == pure.fn = "parseDirectoryListing" /\ pure.pc = "done"

\* The URLs of the entries that were returned.
EntryURLs == [i \in DOMAIN pure.ret |-> pure.ret[i].URL]

\* The links of a page in the order of the document.
RECURSIVE DocLinks(_)
DocLinks(doc) ==
    IF doc = << >> THEN << >>
    ELSE (IF Head(doc).tag = "tr" THEN RowLinks(Head(doc).cells) ELSE <<Head(doc).a>>)
             \o DocLinks(Tail(doc))

\* The absolute URL of a link of the page.
Resolved(a) == resolveURL(ListingURL, a.href).url


\* No URL is returned twice.
DistinctURLs == \A i, j \in DOMAIN pure.ret : i # j => EntryURLs[i] # EntryURLs[j]

\* C23 as stated: no URL is returned twice, and the entries are in the order
\* in which their URLs first occur among the links of the document.
C23_FirstOccurrence ==
    ListingDone =>
        LET links == DocLinks(pure.doc)
            Pos(u) == Min({k \in DOMAIN links : Resolved(links[k]) = u})
        IN  /\ DistinctURLs
            /\ \A i, j \in DOMAIN pure.ret : i < j => Pos(EntryURLs[i]) < Pos(EntryURLs[j])

\* C23, amended: no URL is returned twice, each URL that a row or a link
\* gives is returned, and the entries are in the order in which the walk first
\* gets their URLs, a row giving the link of its first td cell before the links
\* of the row are looked at.
C23_FirstSeen ==
    ListingDone =>
        LET p == Parsed(pure.doc, ListingURL)
            Pos(u) == Min({k \in DOMAIN p : p[k].ok /\ p[k].URL = u})
        IN  /\ DistinctURLs
            /\ {EntryURLs[i] : i \in DOMAIN pure.ret} = {p[k].URL : k \in {x \in DOMAIN p : p[x].ok}}
            /\ \A i, j \in DOMAIN pure.ret : i < j => Pos(EntryURLs[i]) < Pos(EntryURLs[j])

\* A file is linked in a table row and again, by its absolute URL, outside of
\* the table, and one entry was returned.
C23_Witness ==
    /\ ListingDone
    /\ Len(pure.doc) = 2
    /\ pure.doc[1].tag = "tr"
    /\ pure.doc[1].cells[1].links = <<LinkFile>>
    /\ pure.doc[2] = AnchorNode(LinkAbsFile)
    /\ Len(pure.ret) = 1
    /\ pure.ret[1].Size = SizeText

\* C24: the URL of every entry is on the host of the listing and its path is
\* below the listing's path, which ends in a slash.
C24_Descendant ==
    ListingDone =>
        \A i \in DOMAIN pure.ret :
            LET u == ParseURL(pure.ret[i].URL)
                base == ParseURL(ListingURL)
            IN  /\ u.opaque = << >>
                /\ u.scheme = base.scheme
                /\ u.host = base.host
                /\ HasPrefix(u.path, base.path)
                /\ u.path # base.path

\* A link to the parent or to the directory itself, a javascript: or data:
\* link, or a link that is only a query.
Excluded(a) ==
    \/ a.href \in {<<".", ".", "/">>, <<".", "/">>}
    \/ ToLower(TrimSpace(a.text)) = ToLower(<<"P", "a", "r", "e", "n", "t", " ", "D", "i", "r", "e", "c", "t", "o", "r", "y">>)
    \/ HasPrefix(ToLower(a.href), <<"j", "a", "v", "a", "s", "c", "r", "i", "p", "t", ":">>)
    \/ HasPrefix(ToLower(a.href), <<"d", "a", "t", "a", ":">>)
    \/ HasPrefix(a.href, <<"?">>)

\* C25: every entry comes from a link of the page that is none of these.
C25_NoReference ==
    ListingDone =>
        LET links == DocLinks(pure.doc)
        IN  \A i \in DOMAIN pure.ret :
                \E k \in DOMAIN links :
                    Resolved(links[k]) = pure.ret[i].URL /\ ~Excluded(links[k])

\* ---------------------------------------------------------------- properties of rankMatches
RankDone == pure.fn = "rankMatches" /\ pure.pc = "done"

\* The words of a lower-case text, as the intervals of its positions: maximal
\* runs without a space or a separator.
WordRuns(s) ==
    {r \in (1..Len(s)) \X (1..Len(s)) :
        /\ r[1] <= r[2]
        /\ \A k \in r[1]..r[2] : s[k] \notin Separators \cup {Space}
        /\ r[1] = 1 \/ s[r[1] - 1] \in Separators \cup {Space}
        /\ r[2] = Len(s) \/ s[r[2] + 1] \in Separators \cup {Space}}

\* The runs that count as tokens: two characters or more and no stopword.
TokenRunsOf(s) ==
    {r \in WordRuns(s) : r[2] > r[1] /\ SubSeq(s, r[1], r[2]) \notin StopWords}

\* The token hits of a file name: the tokens of the query, each occurrence
\* counted, that are tokens of the name.
TokenHits(name, query) ==
    LET q == ToLower(query)
        n == ToLower(name)
    IN  Cardinality({r \in TokenRunsOf(q) :
                        \E m \in TokenRunsOf(n) : SubSeq(n, m[1], m[2]) = SubSeq(q, r[1], r[2])})

\* The lower-cased query, trimmed, is a part of the lower-cased name.
PhraseHit(name, query) ==
    LET q == ToLower(TrimSpace(query))
    IN  q # << >> /\ \E i \in 1..(Len(name) - Len(q) + 1) :
                        SubSeq(ToLower(name), i, i + Len(q) - 1) = q

\* The admission filter.
Admitted(name, query, exact) ==
    LET k == IF Cardinality(TokenRunsOf(ToLower(query))) = 1 THEN 1 ELSE 2
    IN  IF exact THEN PhraseHit(name, query)
        ELSE PhraseHit(name, query)
               \/ (TokenRunsOf(ToLower(query)) # {} /\ TokenHits(name, query) >= k)

\* The score of an entry of the call.
ScoreOf(e) ==
    ScoreEntry(e, pure.query, pure.preferRegion, pure.preferLanguages, pure.exact).score

\* C26: the ranking returns exactly the files of the input that pass the
\* admission filter and have a score above 0, each once, by descending score
\* and, at equal scores, by ascending name.
C26_Ranked ==
    RankDone =>
        LET ret == pure.ret
            input == {pure.entries[i] : i \in DOMAIN pure.entries}
        IN  /\ \A i \in DOMAIN ret : ret[i] \in input
            /\ \A i, j \in DOMAIN ret : i # j => ret[i] # ret[j]
            /\ {ret[i] : i \in DOMAIN ret}
                 = {e \in input : /\ ~e.IsDir
                                  /\ Admitted(e.Name, pure.query, pure.exact)
                                  /\ ScoreOf(e) > 0}
            /\ \A i, j \in DOMAIN ret :
                 i < j => \/ ScoreOf(ret[i]) > ScoreOf(ret[j])
                          \/ /\ ScoreOf(ret[i]) = ScoreOf(ret[j])
                             /\ ~Less(ret[j].Name, ret[i].Name)

\* Two files with one score come back in the order of their names, which is
\* not the order of the input.
C26_Witness ==
    /\ RankDone
    /\ pure.exact = FALSE
    /\ pure.entries = <<EntryUSA, EntryPlain>>
    /\ pure.ret = <<EntryPlain, EntryUSA>>
    /\ ScoreOf(EntryUSA) = ScoreOf(EntryPlain)

ChronoDone ==
    /\ RankDone
    /\ pure.entries = <<ChronoEurope, ChronoUSA, ChronoDemo>>
    /\ pure.query = ChronoQuery
    /\ pure.preferRegion = <<"e", "u">>

\* The points of the USA file for its tokens and for the phrase: two token
\* hits, the phrase hit and the bonus for all tokens.
ChronoTokenPoints == (2 * 10) + 20 + 12

\* C27 as stated: the Europe file first, the USA file second with token and
\* phrase points only, and the demo file with a negative score and left out.
C27_DemoExcluded ==
    ChronoDone =>
        /\ pure.ret = <<ChronoEurope, ChronoUSA>>
        /\ ScoreOf(ChronoUSA) = ChronoTokenPoints
        /\ ScoreOf(ChronoDemo) < 0

\* C27: the Europe file first, the USA file second with token and phrase
\* points only, and the demo file last: the region bonus leaves it the score
\* 32 after the penalty of 50, which is above 0, so it is returned.
C27_DemoLast ==
    ChronoDone =>
        /\ pure.ret = <<ChronoEurope, ChronoUSA, ChronoDemo>>
        /\ ScoreOf(ChronoEurope) = ChronoTokenPoints + 30
        /\ ScoreOf(ChronoUSA) = ChronoTokenPoints
        /\ ScoreOf(ChronoDemo) = (ChronoTokenPoints + 30) - 50
        /\ ScoreOf(ChronoDemo) > 0

C27_Witness ==
    /\ ChronoDone
    /\ Len(pure.ret) = 3
    /\ pure.ret[3] = ChronoDemo

\* ---------------------------------------------------------------- one transfer per item
\* The tasks that run a transfer of item id: past the section that marks the
\* item Active, and before the section that writes its final status is over.
Transferring(id) ==
    {t \in TaskIDs : tasks[t].item = id /\ tasks[t].pc \notin {"idle", "acquire", "begin"}}

\* C28: at most one task runs a transfer of an item at any time.
C28_OneTransfer == \A id \in DOMAIN item : Cardinality(Transferring(id)) <= 1

\* ---------------------------------------------------------------- queued items start
IsQueued(id) == id \in DOMAIN item /\ item[id].Status = StatusQueued

\* The item has a transfer attempt, or it was paused (SpecLive has no Cancel).
StartedOrPaused(id) ==
    id \in DOMAIN item /\ item[id].Status \in {StatusActive, StatusPaused}

\* C29: an item that is Queued and is not paused afterwards becomes Active.
C29_Starts == \A id \in 1..MaxItems : IsQueued(id) ~> StartedOrPaused(id)

\* ---------------------------------------------------------------- the workers of CrawlAll
\* Worker w has a collection: from the receive to the handling of what
\* CrawlCollection returned.
InProgress(w) == threads[w].pc \in {"crawl", "run", "returned"}

\* The directories whose crawlDir runs or waits for a subdirectory in worker w.
PathsOf(w) == {threads[w].stack[k].path : k \in DOMAIN threads[w].stack}

\* The crawlDir calls of worker w are one inside the other, from the collection
\* down: one directory of the collection is worked on at a time.
OneAtATime(w) ==
    LET stack == threads[w].stack
    IN  \A k \in DOMAIN stack :
            IF k = 1 THEN stack[k].path = <<threads[w].collection>>
            ELSE Parent(stack[k].path) = stack[k - 1].path

\* Worker w receives a collection in this step.
Receives(w) == threads[w].pc # "crawl" /\ threads'[w].pc = "crawl"

C40_ErrorOfStatus ==
    \A id \in DOMAIN item :
        /\ item[id].Status = StatusCompleted => item[id].Error = NoError
        /\ item[id].Status = StatusFailed => item[id].Error # NoError

\* ---------------------------------------------------------------- pause and cancel stop the transfer
\* Pause, Cancel or CancelAll stops the Active item id in this step: no task
\* moves.
UserStops(id) ==
    /\ id \in DOMAIN item
    /\ item[id].Status = StatusActive
    /\ item'[id].Status \in {StatusPaused, StatusFailed}
    /\ \A t \in TaskIDs : tasks'[t].pc = tasks[t].pc

\* The tasks that transfer item id and have not left the copy loop.
Copying(id) ==
    {t \in TaskIDs : tasks[t].item = id /\ tasks[t].pc \in {"stat", "request", "open", "copy"}}

\* The .part file of the item of task t is there and as long as it was, or
\* longer by one chunk.
KeepsPart(t) ==
    LET partPath == PartPath(item[tasks[t].item].DestPath)
    IN  Exists(partPath)
            => /\ partPath \in DOMAIN fs'
               /\ fs'[partPath] \in {fs[partPath], fs[partPath] + 1}

\* Task t takes a step of its own.
Moves(t) == tasks'[t].pc # tasks[t].pc \/ tasks'[t].body # tasks[t].body

\* Pause or Cancel of an Active item cancels the context of every task that
\* transfers it.
Signals ==
    \A id \in DOMAIN item : UserStops(id) => \A t \in Copying(id) : tasks'[t].ctxDone

\* A task whose context is cancelled writes no chunk in the next round of its
\* copy loop and returns.
Checks ==
    \A t \in TaskIDs :
        (tasks[t].pc = "copy" /\ tasks[t].ctxDone /\ Moves(t))
            => fs' = fs /\ tasks'[t].pc = "finish" /\ tasks'[t].err = ctxCanceled

\* A step of a task whose context is cancelled leaves the .part file in place,
\* with the bytes it had.
Keeps ==
    \A t \in UNION {Copying(id) : id \in DOMAIN item} :
        (tasks[t].ctxDone /\ Moves(t)) => KeepsPart(t)

\* C35: after Pause or Cancel of an Active item its transfer stops: every task
\* that transfers it is signalled, a signalled task checks the signal before
\* each chunk and writes none, and it leaves the .part file as it is.
C35_Stops == [][Signals /\ Checks /\ Keeps]_allvars

\* C39: when a CrawlAll that was not cancelled has returned, Errors equals the
\* number of directories whose crawl failed (a listing error or a store error
\* counts once).
C39_ErrorsCount ==
    (crawl.op = "CrawlAll" /\ crawl.ret = NoError /\ ~ctxDone)
        => crawler.errCount = Cardinality(history.failed)

\* The listing request of the top frame of w fails in this step: crawlDir
\* returns from it.
ListingFails(w) ==
    /\ At(w, "list")
    /\ threads'[w] # threads[w]
    /\ Len(threads'[w].stack) < Len(threads[w].stack)

\* C33: a step in which the listing request of a directory fails leaves the
\* directory's FileRecords and its LastCrawled as they are; and LastCrawled of
\* a directory changes only in the step that marks it at the end of a crawlDir
\* of this directory that has fetched its listing and has stored its records.
C33_FailedListing ==
    [][/\ \A w \in ThreadIDs :
            ListingFails(w)
               => /\ RecordsIn(db', Top(w).path) = RecordsIn(db, Top(w).path)
                  /\ db'.directories = db.directories
       /\ \A dir \in DOMAIN db.directories :
            db'.directories[dir].last_crawled # db.directories[dir].last_crawled
               => \E w \in ThreadIDs :
                     /\ At(w, "mark")
                     /\ threads'[w] # threads[w]
                     /\ Top(w).path = dir
                     /\ Top(w).entries = Listing(dir)
                     /\ {f.path : f \in RecordsIn(db, dir)} = ListedFiles(dir)]_allvars

\* C32: when a crawl of collection A without force has returned nil, was not
\* cancelled and no directory failed in it, crawlDir was called in it for every
\* directory of A's tree that the store holds as stale: no row, no LastCrawled,
\* or a LastCrawled outside the freshness window.
C32_StaleListed ==
    (/\ crawl.op = "CrawlCollection"
     /\ crawl.ret = NoError
     /\ ~crawler.force
     /\ ~ctxDone
     /\ history.failed = {})
        => \A dir \in Dirs :
              (dir[1] = "A" /\ IsDirectoryStale(db, dir, staleDays, now))
                  => dir \in history.called

\* C38: no step of a crawl lowers a number that Progress() returns: the
\* processed directories, the found files and the errors of the stored
\* snapshot.
C38_Monotone ==
    [][crawl.ret = Running
         => /\ crawler'.progress.DirsProcessed >= crawler.progress.DirsProcessed
            /\ crawler'.progress.FilesFound >= crawler.progress.FilesFound
            /\ crawler'.progress.Errors >= crawler.progress.Errors]_allvars

\* C31: a CrawlAll that was called returns.
C31_Terminates == (crawl.op = "CrawlAll" /\ crawl.ret = Running) ~> (crawl.ret # Running)

\* CrawlAll has returned the cancellation error with a collection still in
\* the queue: the cancellation came while the producer was blocked on the send,
\* and the worker left with the listing's cancellation error.
C31_Witness ==
    /\ crawl.op = "CrawlAll"
    /\ crawl.ret = ctxCanceled
    /\ crawl.rest # << >>
    /\ history.failed # {}

\* C34: when no index update is running, no two FileRecords of one directory
\* row have the same Path.
C34_NoDuplicates ==
    (\A w \in ThreadIDs : threads[w].pc = "off")
        => \A f, g \in db.files :
              (f.path = g.path /\ f.directory_id = g.directory_id) => f = g

\* ---------------------------------------------------------------- properties of the locks
\* C36: no goroutine is about to read or write a field of the item, other
\* than through an atomic operation, while another goroutine is about to write
\* that field; and DoneBytes is touched by atomic operations only.
C36_NoRace ==
    /\ \A g, h \in DOMAIN goroutines :
          (g # h /\ Doing(g, {"write"}) /\ Doing(h, {"read", "write"}))
              => NextOf(g).x \cap NextOf(h).x = {}
    /\ \A g \in DOMAIN goroutines :
          /\ Doing(g, {"read", "write"}) => "DoneBytes" \notin NextOf(g).x
          /\ Doing(g, {"atomic"}) => NextOf(g).x = {"DoneBytes"}

\* The locks that goroutine g holds.
HeldBy(g) == {x \in {"mu", "Mu"} : locks[x] = g}

\* Goroutine g has a step to take and does not wait for a lock or a slot.
CanRun(g) ==
    /\ Busy(g)
    /\ Doing(g, {"lock"}) => locks[NextOf(g).x] = 0
    /\ Doing(g, {"acquire"}) => locks.sem < LockParallel

\* C37: the callback is called by a goroutine that holds neither the manager's
\* lock nor the item's, no goroutine takes the manager's lock while it holds
\* the item's, and when goroutines have steps to take one of them can take
\* its step - also with a callback that calls Items, HasActive or ActiveCount.
C37_NoDeadlock ==
    /\ \A g \in DOMAIN goroutines : Doing(g, {"callback"}) => HeldBy(g) = {}
    /\ \A g \in DOMAIN goroutines :
          (Doing(g, {"lock"}) /\ NextOf(g).x = "mu") => locks.Mu # g
    /\ (\E g \in DOMAIN goroutines : Busy(g)) => (\E g \in DOMAIN goroutines : CanRun(g))

\* A callback that calls back into the manager waits for the manager's lock,
\* which another goroutine holds together with the item's lock.
C37_Witness ==
    \E g, h \in DOMAIN goroutines :
        /\ g # h
        /\ goroutines[g].inCallback
        /\ Doing(g, {"lock"})
        /\ NextOf(g).x = "mu"
        /\ HeldBy(h) = {"mu", "Mu"}

====
